---- MODULE Spec2Model ----
(***************************************************************************)
(* Model of the module resolver of tauri-codegen (src/src/resolver.rs):    *)
(* the ModuleResolver object with its three tables, parse_file and         *)
(* register_expanded_type_if_missing as the operations that change them,   *)
(* and resolve_type as the query answered from them.                       *)
(***************************************************************************)
EXTENDS Naturals, Sequences, FiniteSets, TLC

VARIABLES
    files,             \* ModuleResolver.files: file path -> FileScope
    type_definitions,  \* ModuleResolver.type_definitions: type name -> Seq(file path)
    module_to_file,    \* ModuleResolver.module_to_file: module path -> file path
    ret,               \* the most recent call on the resolver and what it returned
    calls,             \* number of parse_file / register_expanded calls made so far
    pc,                \* where a run of run_generate stands ("idle": no run)
    rust_files,        \* run_generate: the scanned files not yet parsed
    parse_result,      \* run_generate: ParseResult {commands, structs, enums}
    next_cmd,          \* collect_used_types: index of the next command to seed from
    resolved_types,    \* collect_used_types: type name -> source file
    conflicts,         \* collect_used_types: type name -> Seq(source file)
    to_process,        \* collect_used_types: the worklist, a Vec of (name, file)
    processed,         \* collect_used_types: the (name, file) pairs expanded
    previous,          \* the TypeCollectionResult of an earlier collection, if any
    written            \* what run_generate wrote to the file system, in order

run_vars == <<pc, rust_files, parse_result, next_cmd, resolved_types, conflicts,
              to_process, processed, previous, written>>

vars == <<files, type_definitions, module_to_file, ret, calls, run_vars>>

\* Bound on the number of mutating calls (parse_file, register_expanded_type_if_missing).
MaxCalls == 4

\* Longest wildcard re-export chain the chain properties are stated for.
MaxChain == 3

----------------------------------------------------------------------------
(* Generic helpers for HashMap and Vec values.                             *)

EmptyMap == [k \in {} |-> k]

\* HashMap::insert: a later insert under the same key replaces the value.
MapInsert(m, k, v) == [x \in (DOMAIN m) \cup {k} |-> IF x = k THEN v ELSE m[x]]

Range(s) == {s[i] : i \in DOMAIN s}

Last(s) == s[Len(s)]

Front(s) == SubSeq(s, 1, Len(s) - 1)

----------------------------------------------------------------------------
(* File paths. A path is the sequence of its components; a component is a  *)
(* stem followed by rs copies of the suffix ".rs" ("mod.rs" is stem "mod"  *)
(* with rs = 1, the directory "a" is stem "a" with rs = 0).                *)

Dir(name) == [stem |-> name, rs |-> 0]
RsFile(name) == [stem |-> name, rs |-> 1]

base_path == <<Dir("src")>>

LibRs == <<Dir("src"), RsFile("lib")>>
MainRs == <<Dir("src"), RsFile("main")>>
ARs   == <<Dir("src"), RsFile("a")>>
BRs   == <<Dir("src"), RsFile("b")>>
CRs   == <<Dir("src"), Dir("a"), RsFile("c")>>
DeepRs == <<Dir("src"), Dir("a"), Dir("b"), Dir("c"), RsFile("deep")>>
TypesRs == <<Dir("src"), RsFile("types")>>

\* The path the macro-expansion source registers its types under.
Expanded == <<Dir("<cargo-expand>")>>

SourceFiles == {LibRs, MainRs, ARs, BRs, CRs}

\* Path::strip_prefix(base).unwrap_or(path)
strip_prefix(path, base) ==
    IF Len(base) <= Len(path) /\ SubSeq(path, 1, Len(base)) = base
    THEN SubSeq(path, Len(base) + 1, Len(path))
    ELSE path

\* component == "mod.rs" || "lib.rs" || "main.rs"
IsModuleRoot(c) == c.rs = 1 /\ c.stem \in {"mod", "lib", "main"}

\* str::trim_end_matches(".rs"): every trailing ".rs" is removed.
trim_end_matches_rs(c) == c.stem

RECURSIVE module_parts(_)
module_parts(components) ==
    IF components = <<>> THEN <<>>
    ELSE LET c == Head(components)
         IN IF IsModuleRoot(c) THEN module_parts(Tail(components))
            ELSE <<trim_end_matches_rs(c)>> \o module_parts(Tail(components))

path_to_module(path, base) == <<"crate">> \o module_parts(strip_prefix(path, base))

----------------------------------------------------------------------------
(* Parsed source: the items syn::parse_file returns.                       *)

UseName(n) == [kind |-> "Name", ident |-> n]
UseRename(n, r) == [kind |-> "Rename", ident |-> n, rename |-> r]
UseGlob == [kind |-> "Glob"]
UseGroup(ts) == [kind |-> "Group", items |-> ts]

RECURSIVE UsePath(_, _)
UsePath(segs, leaf) ==
    IF segs = <<>> THEN leaf
    ELSE [kind |-> "Path", ident |-> Head(segs), tree |-> UsePath(Tail(segs), leaf)]

ItemUse(tree) == [kind |-> "Use", tree |-> tree]
ItemStruct(n) == [kind |-> "Struct", ident |-> n]
ItemEnum(n) == [kind |-> "Enum", ident |-> n]
ItemType(n, ty) == [kind |-> "Type", ident |-> n, ty |-> ty]
ItemMod(items) == [kind |-> "Mod", inline |-> TRUE, items |-> items]
ItemModDecl == [kind |-> "Mod", inline |-> FALSE, items |-> <<>>]
ItemFn == [kind |-> "Fn"]

\* syn::Type values a type alias can have on its right-hand side.
TypePath(segs) == [kind |-> "Path", segments |-> segs]
TypeReference(elem) == [kind |-> "Reference", elem |-> elem]
TypeOther == [kind |-> "Tuple"]

Parsed(items) == [ok |-> TRUE, items |-> items]
Malformed == [ok |-> FALSE, items |-> <<>>]

----------------------------------------------------------------------------
(* Option<T>                                                               *)

None == [some |-> FALSE]
Some(x) == [some |-> TRUE, value |-> x]

----------------------------------------------------------------------------
(* ResolutionResult. Diverged stands for a call that never returns: the    *)
(* recursion re-entered resolve_module_path with a path already on the     *)
(* call stack, which the code repeats until the stack is exhausted.        *)

Found(f) == [tag |-> "Found", file |-> f]
FoundWithAlias(f, original) == [tag |-> "FoundWithAlias", file |-> f, original |-> original]
NotFound == [tag |-> "NotFound"]
Ambiguous(fs) == [tag |-> "Ambiguous", files |-> fs]
Diverged == [tag |-> "Diverged"]
\* The call panicked (an index out of bounds).
Panicked == [tag |-> "Panicked"]

----------------------------------------------------------------------------
(* Building a FileScope: parse_file and what it calls.                     *)

\* FileScope { module_path, ..Default::default() }
NewScope(mp) ==
    [module_path |-> mp,
     local_types |-> EmptyMap,
     imports |-> EmptyMap,
     wildcard_imports |-> <<>>,
     type_aliases |-> EmptyMap]

RECURSIVE extract_base_type_name(_)
extract_base_type_name(ty) ==
    CASE ty.kind = "Path" ->
            IF ty.segments = <<>> THEN None ELSE Some(Last(ty.segments))
      [] ty.kind = "Reference" -> extract_base_type_name(ty.elem)
      [] OTHER -> None

\* Faulty variant of register_type_definition: pushes without the contains() test.
register_type_definition_nodedup(defs, name, path) ==
    MapInsert(defs, name,
              Append(IF name \in DOMAIN defs THEN defs[name] ELSE <<>>, path))

\* type_definitions.entry(name).or_default(); push unless already listed.
register_type_definition(defs, name, path) ==
    LET locations == IF name \in DOMAIN defs THEN defs[name] ELSE <<>>
    IN MapInsert(defs, name,
                 IF path \in Range(locations) THEN locations
                 ELSE Append(locations, path))

RECURSIVE parse_use_tree(_, _, _)
RECURSIVE parse_use_group(_, _, _)

\* The fold over `group.items`.
parse_use_group(trees, scope, prefix) ==
    IF trees = <<>> THEN scope
    ELSE parse_use_group(Tail(trees), parse_use_tree(Head(trees), scope, prefix), prefix)

\* Returns the scope with the imports of `tree` recorded.
parse_use_tree(tree, scope, prefix) ==
    CASE tree.kind = "Path" ->
            parse_use_tree(tree.tree, scope, Append(prefix, tree.ident))
      [] tree.kind = "Name" ->
            [scope EXCEPT !.imports =
                MapInsert(@, tree.ident, [path |-> Append(prefix, tree.ident)])]
      [] tree.kind = "Rename" ->
            [scope EXCEPT !.imports =
                MapInsert(@, tree.rename, [path |-> Append(prefix, tree.ident)])]
      [] tree.kind = "Glob" ->
            [scope EXCEPT !.wildcard_imports = Append(@, prefix)]
      [] tree.kind = "Group" ->
            parse_use_group(tree.items, scope, prefix)

\* One declared type: scope.local_types.insert + register_type_definition.
DeclareType(st, name, path) ==
    [scope |-> [st.scope EXCEPT !.local_types = MapInsert(@, name, "Struct")],
     defs  |-> register_type_definition(st.defs, name, path)]

RECURSIVE parse_items(_, _, _)
\* st = [scope, defs]: the scope under construction and type_definitions.
parse_items(items, path, st) ==
    IF items = <<>> THEN st
    ELSE LET item == Head(items)
             next ==
               CASE item.kind = "Use" ->
                      [st EXCEPT !.scope = parse_use_tree(item.tree, @, <<>>)]
                 [] item.kind = "Struct" ->
                      DeclareType(st, item.ident, path)
                 [] item.kind = "Enum" ->
                      [scope |-> [st.scope EXCEPT !.local_types =
                                      MapInsert(@, item.ident, "Enum")],
                       defs  |-> register_type_definition(st.defs, item.ident, path)]
                 [] item.kind = "Type" ->
                      LET declared == DeclareType(st, item.ident, path)
                          base == extract_base_type_name(item.ty)
                      IN IF base.some
                         THEN [declared EXCEPT !.scope.type_aliases =
                                   MapInsert(@, item.ident, base.value)]
                         ELSE declared
                 [] item.kind = "Mod" ->
                      IF item.inline THEN parse_items(item.items, path, st) ELSE st
                 [] OTHER -> st
         IN parse_items(Tail(items), path, next)

----------------------------------------------------------------------------
(* Resolution: resolve_type and what it calls. All of it reads the three   *)
(* tables and changes nothing.                                             *)

are_siblings(path_a, path_b) ==
    IF Len(path_a) < 2 \/ Len(path_b) < 2 THEN FALSE
    ELSE IF Len(path_a) # Len(path_b) THEN FALSE
    ELSE Front(path_a) = Front(path_b)

\* Faulty variant of try_resolve_from_definitions: the single-candidate case
\* is missing.
try_resolve_without_single(type_name) ==
    IF type_name \in DOMAIN type_definitions /\ type_definitions[type_name] # <<>>
    THEN Ambiguous(type_definitions[type_name])
    ELSE NotFound

try_resolve_from_definitions(type_name) ==
    IF type_name \in DOMAIN type_definitions
    THEN LET locations == type_definitions[type_name]
         IN IF Len(locations) = 1 THEN Found(locations[1])
            ELSE IF locations # <<>> THEN Ambiguous(locations)
            ELSE NotFound
    ELSE NotFound

RECURSIVE normalize_walk_pops_root(_, _)
\* A variant of normalize_walk in which super also removes the root segment.
normalize_walk_pops_root(segs, result) ==
    IF segs = <<>> THEN result
    ELSE LET segment == Head(segs)
         IN CASE segment = "super" ->
                   normalize_walk_pops_root(Tail(segs),
                                            IF result # <<>> THEN Front(result) ELSE result)
              [] segment = "self" -> normalize_walk_pops_root(Tail(segs), result)
              [] OTHER -> normalize_walk_pops_root(Tail(segs), Append(result, segment))

RECURSIVE normalize_walk(_, _)
\* The loop of normalize_relative_path over the segments still to apply.
normalize_walk(segs, result) ==
    IF segs = <<>> THEN result
    ELSE LET segment == Head(segs)
         IN CASE segment = "super" ->
                   normalize_walk(Tail(segs),
                                  IF Len(result) > 1 THEN Front(result) ELSE result)
              [] segment = "self" -> normalize_walk(Tail(segs), result)
              [] OTHER -> normalize_walk(Tail(segs), Append(result, segment))

normalize_relative_path(relative_path, from_module) ==
    IF relative_path = <<>> THEN from_module
    ELSE IF Head(relative_path) = "crate" THEN relative_path
    ELSE normalize_walk(relative_path, from_module)

\* A variant of find_type_in_module that takes the file registered for the
\* module without looking at what it declares.
find_type_in_module_unchecked(type_name, module_path) ==
    IF module_path \in DOMAIN module_to_file
    THEN Some(module_to_file[module_path])
    ELSE None

find_type_in_module(type_name, module_path) ==
    IF module_path \in DOMAIN module_to_file
    THEN LET file_path == module_to_file[module_path]
         IN IF file_path \in DOMAIN files
               /\ type_name \in DOMAIN files[file_path].local_types
            THEN Some(file_path)
            ELSE None
    ELSE None

\* The loop over scope.wildcard_imports: the first wildcard, in the order the
\* imports were written, whose target module declares the name.
wildcard_lookup(name, scope) ==
    LET w == scope.wildcard_imports
        hit(i) == find_type_in_module(name,
                      normalize_relative_path(w[i], scope.module_path))
        hits == {i \in DOMAIN w : hit(i).some}
    IN IF hits = {} THEN None
       ELSE hit(CHOOSE i \in hits : \A j \in hits : i <= j)

\* Faulty variant of wrap_alias_if_needed: a renamed import also replaces the
\* original name an inner re-export has already recorded.
wrap_alias_overwrites(result, import_name, import_path) ==
    LET original_name == IF import_path = <<>> THEN "" ELSE Last(import_path)
        is_alias == original_name # import_name /\ original_name # ""
    IN IF is_alias
       THEN IF result.tag \in {"Found", "FoundWithAlias"}
            THEN FoundWithAlias(result.file, original_name)
            ELSE result
       ELSE result

wrap_alias_if_needed(result, import_name, import_path) ==
    LET original_name == IF import_path = <<>> THEN "" ELSE Last(import_path)
        is_alias == original_name # import_name /\ original_name # ""
    IN IF is_alias
       THEN IF result.tag = "Found"
            THEN FoundWithAlias(result.file, original_name)
            ELSE result
       ELSE result

RECURSIVE canonical_walk_ignores_root(_, _)
\* A variant of canonical_walk that ignores a super applied to the root.
canonical_walk_ignores_root(segs, current_path) ==
    IF segs = <<>> THEN Some(current_path)
    ELSE LET segment == Head(segs)
         IN CASE segment = "super" ->
                   canonical_walk_ignores_root(
                       Tail(segs),
                       IF Len(current_path) > 1 THEN Front(current_path)
                       ELSE current_path)
              [] segment = "self" -> canonical_walk_ignores_root(Tail(segs), current_path)
              [] OTHER -> canonical_walk_ignores_root(Tail(segs),
                                                      Append(current_path, segment))

RECURSIVE canonical_walk(_, _)
\* The loop of resolve_canonical_path over the segments still to apply.
canonical_walk(segs, current_path) ==
    IF segs = <<>> THEN Some(current_path)
    ELSE LET segment == Head(segs)
         IN CASE segment = "super" ->
                   IF Len(current_path) > 1
                   THEN canonical_walk(Tail(segs), Front(current_path))
                   ELSE None
              [] segment = "self" -> canonical_walk(Tail(segs), current_path)
              [] OTHER -> canonical_walk(Tail(segs), Append(current_path, segment))

resolve_canonical_path(segments, scope) ==
    IF segments[1] = "crate"
    THEN canonical_walk(Tail(segments), <<"crate">>)
    ELSE canonical_walk(segments, scope.module_path)

RECURSIVE resolve_module_path_rec(_, _)
RECURSIVE resolve_path_rec(_, _, _)

\* A variant of resolve_path that never consults the imports: the first
\* segment is always read as a child of the current module.
resolve_path_canonical_only(segments, scope, stack) ==
    IF segments = <<>> THEN Panicked
    ELSE LET path_result == resolve_canonical_path(segments, scope)
         IN IF path_result.some
            THEN resolve_module_path_rec(path_result.value, stack)
            ELSE NotFound

\* resolve_path; `stack` holds the module paths of the resolve_module_path
\* calls that are still running.
resolve_path_rec(segments, scope, stack) ==
    LET first == segments[1]
    IN IF segments = <<>> THEN Panicked
       ELSE IF first \in DOMAIN scope.imports
       THEN resolve_module_path_rec(
                scope.imports[first].path \o Tail(segments), stack)
       ELSE LET path_result == resolve_canonical_path(segments, scope)
            IN IF path_result.some
               THEN resolve_module_path_rec(path_result.value, stack)
               ELSE NotFound

\* A variant of resolve_module_path without the last step: a name the module
\* does not supply is not looked up in the global index.
resolve_module_path_no_fallback(module_path, stack) ==
    IF Len(module_path) < 2 THEN NotFound
    ELSE IF module_path \in stack THEN Diverged
    ELSE
      LET type_name == Last(module_path)
          mod_path == Front(module_path)
          registered == mod_path \in DOMAIN module_to_file
                        /\ module_to_file[mod_path] \in DOMAIN files
          file_path == module_to_file[mod_path]
          scope == files[file_path]
      IN IF registered /\ type_name \in DOMAIN scope.local_types
         THEN Found(file_path)
         ELSE IF registered /\ type_name \in DOMAIN scope.imports
         THEN LET imported == scope.imports[type_name]
                  result == resolve_path_rec(imported.path, scope,
                                             stack \cup {module_path})
              IN wrap_alias_if_needed(result, type_name, imported.path)
         ELSE IF registered /\ wildcard_lookup(type_name, scope).some
         THEN Found(wildcard_lookup(type_name, scope).value)
         ELSE NotFound

\* resolve_module_path. A call with a path that is already running can only
\* repeat itself: the tables are frozen and the function is deterministic.
resolve_module_path_rec(module_path, stack) ==
    IF Len(module_path) < 2 THEN NotFound
    ELSE IF module_path \in stack THEN Diverged
    ELSE
      LET type_name == Last(module_path)
          mod_path == Front(module_path)
          registered == mod_path \in DOMAIN module_to_file
                        /\ module_to_file[mod_path] \in DOMAIN files
          file_path == module_to_file[mod_path]
          scope == files[file_path]
      IN IF registered /\ type_name \in DOMAIN scope.local_types
         THEN Found(file_path)
         ELSE IF registered /\ type_name \in DOMAIN scope.imports
         THEN LET imported == scope.imports[type_name]
                  result == resolve_path_rec(imported.path, scope,
                                             stack \cup {module_path})
              IN wrap_alias_if_needed(result, type_name, imported.path)
         ELSE IF registered /\ wildcard_lookup(type_name, scope).some
         THEN Found(wildcard_lookup(type_name, scope).value)
         ELSE try_resolve_from_definitions(type_name)

resolve_module_path(module_path) == resolve_module_path_rec(module_path, {})

resolve_path(segments, scope) == resolve_path_rec(segments, scope, {})

\* Faulty variant of global_lookup: the first sibling is taken even when
\* several candidates are siblings.
global_lookup_first_sibling(name, from_module) ==
    IF name \in DOMAIN type_definitions
    THEN LET locations == type_definitions[name]
             siblings == SelectSeq(locations,
                            LAMBDA loc : loc \in DOMAIN files
                                /\ are_siblings(files[loc].module_path, from_module))
         IN IF Len(locations) = 1 THEN Found(locations[1])
            ELSE IF Len(siblings) >= 1 THEN Found(siblings[1])
            ELSE Ambiguous(locations)
    ELSE NotFound

\* Step 4 of resolve_simple_name: the lookup by name in the whole workspace,
\* with the sibling filter when several files are listed.
global_lookup(name, from_module) ==
    IF name \in DOMAIN type_definitions
    THEN LET locations == type_definitions[name]
             siblings == SelectSeq(locations,
                            LAMBDA loc : loc \in DOMAIN files
                                /\ are_siblings(files[loc].module_path, from_module))
         IN IF Len(locations) = 1 THEN Found(locations[1])
            ELSE IF Len(siblings) = 1 THEN Found(siblings[1])
            ELSE Ambiguous(locations)
    ELSE NotFound

\* Faulty variant of resolve_simple_name: the explicit imports are consulted
\* before the local declarations.
resolve_simple_name_imports_first(name, scope, from_file) ==
    IF name \in DOMAIN scope.imports
    THEN LET imported == scope.imports[name]
         IN wrap_alias_if_needed(resolve_module_path(imported.path),
                                 name, imported.path)
    ELSE IF name \in DOMAIN scope.local_types
    THEN Found(from_file)
    ELSE IF wildcard_lookup(name, scope).some
    THEN Found(wildcard_lookup(name, scope).value)
    ELSE global_lookup(name, scope.module_path)

resolve_simple_name(name, scope, from_file) ==
    IF name \in DOMAIN scope.local_types
    THEN Found(from_file)
    ELSE IF name \in DOMAIN scope.imports
    THEN LET imported == scope.imports[name]
         IN wrap_alias_if_needed(resolve_module_path(imported.path),
                                 name, imported.path)
    ELSE IF wildcard_lookup(name, scope).some
    THEN Found(wildcard_lookup(name, scope).value)
    ELSE global_lookup(name, scope.module_path)

\* Faulty variant of resolve_type: without a scope the first segment is looked
\* up instead of the last.
resolve_type_first_segment(type_path, from_file) ==
    LET segments == SelectSeq(type_path, LAMBDA s : s # "")
    IN IF from_file \notin DOMAIN files
       THEN try_resolve_from_definitions(IF segments = <<>> THEN "" ELSE segments[1])
       ELSE IF Len(segments) = 1
       THEN resolve_simple_name(segments[1], files[from_file], from_file)
       ELSE resolve_path(segments, files[from_file])

\* type_path is the text cut at every "::" (what str::split returns); the
\* empty pieces are dropped.
resolve_type(type_path, from_file) ==
    LET segments == SelectSeq(type_path, LAMBDA s : s # "")
        type_name == IF segments = <<>> THEN "" ELSE Last(segments)
    IN IF from_file \notin DOMAIN files
       THEN try_resolve_from_definitions(type_name)
       ELSE IF Len(segments) = 1
       THEN resolve_simple_name(segments[1], files[from_file], from_file)
       ELSE resolve_path(segments, files[from_file])

----------------------------------------------------------------------------
(* Alias resolution: resolve_alias_target and resolve_single_alias.        *)
(* `order` is the order in which the HashMap `files` hands out its entries *)
(* when iterated: a sequence naming every scanned file once. The map fixes *)
(* it by hashing with per-map random keys, so it is an input of the call.  *)

\* for _ in 0..10
MaxAliasHops == 10

\* The orders in which a HashMap with key set S can be iterated.
IterationOrders(S) ==
    {o \in [1..Cardinality(S) -> S] : \A x \in S : \E i \in DOMAIN o : o[i] = x}

\* The first file of the iteration, other than from_file, that has an alias
\* named type_name.
RECURSIVE alias_in_any_file(_, _, _)
alias_in_any_file(type_name, from_file, order) ==
    IF order = <<>> THEN None
    ELSE LET file_path == Head(order)
         IN IF /\ file_path # from_file
               /\ type_name \in DOMAIN files[file_path].type_aliases
            THEN Some(files[file_path].type_aliases[type_name])
            ELSE alias_in_any_file(type_name, from_file, Tail(order))

\* One level of alias. The result is an Option, or Diverged (Panicked) when
\* the resolve_module_path call made for an import never returns (panics).
resolve_single_alias(type_name, from_file, order) ==
    LET global == alias_in_any_file(type_name, from_file, order)
    IN IF from_file \notin DOMAIN files THEN global
       ELSE LET scope == files[from_file]
            IN IF type_name \in DOMAIN scope.type_aliases
               THEN Some(scope.type_aliases[type_name])
               ELSE IF type_name \notin DOMAIN scope.imports THEN global
               ELSE LET imported == scope.imports[type_name]
                        r == resolve_module_path(imported.path)
                        actual_name == IF imported.path = <<>> THEN type_name
                                       ELSE Last(imported.path)
                    IN IF r.tag \in {"Diverged", "Panicked"} THEN r
                       ELSE IF /\ r.tag = "Found"
                               /\ r.file \in DOMAIN files
                               /\ actual_name \in DOMAIN files[r.file].type_aliases
                       THEN Some(files[r.file].type_aliases[actual_name])
                       ELSE global

\* The loop of resolve_alias_target with `remaining` iterations to go.
RECURSIVE alias_loop(_, _, _, _, _)
alias_loop(current, found_any, remaining, from_file, order) ==
    IF remaining = 0
    THEN (IF found_any THEN Some(current) ELSE None)
    ELSE LET next == resolve_single_alias(current, from_file, order)
         IN IF "tag" \in DOMAIN next THEN next
            ELSE IF next.some
            THEN alias_loop(next.value, TRUE, remaining - 1, from_file, order)
            ELSE (IF found_any THEN Some(current) ELSE None)

resolve_alias_target(type_name, from_file, order) ==
    alias_loop(type_name, FALSE, MaxAliasHops, from_file, order)

----------------------------------------------------------------------------
(* The inputs the operations are called with.                              *)

P(segs, leaf) == ItemUse(UsePath(segs, leaf))

\* src/lib.rs:  pub use a::*;  use crate::b::T as U;
SrcLib1 == Parsed(<<P(<<"a">>, UseGlob), P(<<"crate", "b">>, UseRename("T", "U"))>>)
\* src/lib.rs:  use crate::a::{T, U};  use crate::b::*;
SrcLib2 == Parsed(<<P(<<"crate", "a">>, UseGroup(<<UseName("T"), UseName("U")>>)),
                 P(<<"crate", "b">>, UseGlob)>>)
\* src/a.rs:  pub struct T;  pub enum U {}
SrcA1 == Parsed(<<ItemStruct("T"), ItemEnum("U")>>)
\* src/main.rs:  pub struct T;  fn main() {}
SrcMain1 == Parsed(<<ItemStruct("T"), ItemFn>>)
\* src/a.rs:  mod c;  pub use c::*;  pub use crate::b::T as U;
SrcA2 == Parsed(<<ItemModDecl, P(<<"c">>, UseGlob), P(<<"crate", "b">>, UseRename("T", "U"))>>)
\* src/b.rs:  pub struct T;  pub type U = &T;
SrcB1 == Parsed(<<ItemStruct("T"), ItemType("U", TypeReference(TypePath(<<"T">>)))>>)
\* src/b.rs:  use super::a::T;
SrcB2 == Parsed(<<P(<<"super", "a">>, UseName("T"))>>)
\* src/b.rs:  mod inner { pub struct T; }  use crate::a::{T, *};
SrcB3 == Parsed(<<ItemMod(<<ItemStruct("T")>>),
               P(<<"crate", "a">>, UseGroup(<<UseName("T"), UseGlob>>))>>)
\* src/b.rs:  pub use crate::a::U as T;
SrcB4 == Parsed(<<P(<<"crate", "a">>, UseRename("U", "T"))>>)
\* src/a/c.rs:  pub struct T;  pub struct U;
SrcC1 == Parsed(<<ItemStruct("T"), ItemStruct("U")>>)
\* src/a/c.rs:  pub use crate::b::*;  type V = (T, T);
SrcC2 == Parsed(<<P(<<"crate", "b">>, UseGlob), ItemType("V", TypeOther)>>)

Sources ==
    {[path |-> LibRs, content |-> c] : c \in {SrcLib1, SrcLib2, Malformed}}
    \cup {[path |-> MainRs, content |-> c] : c \in {SrcMain1}}
    \cup {[path |-> ARs, content |-> c] : c \in {SrcA1, SrcA2}}
    \cup {[path |-> BRs, content |-> c] : c \in {SrcB1, SrcB2, SrcB3, SrcB4}}
    \cup {[path |-> CRs, content |-> c] : c \in {SrcC1, SrcC2}}

\* Type names the macro-expansion source supplies.
ExpandedNames == {"T"}

\* Paths handed to resolve_type, cut at "::".
TypePaths ==
    {<<"T">>, <<"U">>,
     <<"crate", "T">>, <<"crate", "a", "T">>, <<"", "crate", "b", "U">>}

\* Files handed to resolve_type as from_file.
FromFiles == SourceFiles \cup {Expanded}

----------------------------------------------------------------------------
(* The state machine.                                                      *)

Init ==
    /\ files = EmptyMap
    /\ type_definitions = EmptyMap
    /\ module_to_file = EmptyMap
    /\ ret = [op |-> "new"]
    /\ calls = 0
    /\ pc = "idle"
    /\ rust_files = <<>>
    /\ parse_result = [commands |-> <<>>, structs |-> <<>>, enums |-> <<>>]
    /\ next_cmd = 1
    /\ resolved_types = EmptyMap
    /\ conflicts = EmptyMap
    /\ to_process = <<>>
    /\ processed = {}
    /\ previous = None
    /\ written = <<>>

\* ModuleResolver::parse_file(path, content, base_path)
ParseFile(path, content) ==
    /\ calls < MaxCalls
    /\ calls' = calls + 1
    /\ UNCHANGED run_vars
    /\ IF ~content.ok
       THEN /\ ret' = [op |-> "parse_file", path |-> path, ok |-> FALSE]
            /\ UNCHANGED <<files, type_definitions, module_to_file>>
       ELSE LET scope0 == NewScope(path_to_module(path, base_path))
                st == parse_items(content.items, path,
                                  [scope |-> scope0, defs |-> type_definitions])
            IN /\ type_definitions' = st.defs
               /\ module_to_file' = MapInsert(module_to_file, st.scope.module_path, path)
               /\ files' = MapInsert(files, path, st.scope)
               /\ ret' = [op |-> "parse_file", path |-> path, ok |-> TRUE]

\* The table register_expanded_type_if_missing leaves behind.
register_expanded(defs, type_name, source_path) ==
    IF type_name \notin DOMAIN defs
    THEN MapInsert(defs, type_name, <<source_path>>)
    ELSE defs

\* ModuleResolver::register_expanded_type_if_missing(type_name, source_path)
RegisterExpanded(type_name, source_path) ==
    /\ calls < MaxCalls
    /\ calls' = calls + 1
    /\ type_definitions' = register_expanded(type_definitions, type_name, source_path)
    /\ ret' = [op |-> "register_expanded_type_if_missing",
               type_name |-> type_name, source_path |-> source_path]
    /\ UNCHANGED <<files, module_to_file, run_vars>>

\* ModuleResolver::resolve_type(type_path, from_file)
ResolveType(type_path, from_file) ==
    /\ ret' = [op |-> "resolve_type", type_path |-> type_path,
               from_file |-> from_file,
               result |-> resolve_type(type_path, from_file)]
    /\ UNCHANGED <<files, type_definitions, module_to_file, calls, run_vars>>

Next ==
    \/ \E src \in Sources : ParseFile(src.path, src.content)
    \/ \E n \in ExpandedNames : RegisterExpanded(n, Expanded)
    \/ \E tp \in TypePaths, f \in FromFiles : ResolveType(tp, f)

Spec == Init /\ [][Next]_vars

----------------------------------------------------------------------------
(* The resolver with alias queries: parse_file builds the tables and       *)
(* resolve_alias_target is asked for names in them.                        *)

\* Bound on the number of parse_file calls before the alias queries.
MaxAliasCalls == 3

\* The files of the alias runs:
\*   src/lib.rs:  use crate::a::Alias2 as Mine;  pub use crate::b::T as U;
\*   src/a.rs:    type Alias2 = Alias1;  type Alias1 = Base;  struct Base;
\*   src/b.rs:    type Ping = Pong;  type Pong = Ping;  type Own = other::Own;
\*                pub use crate::U as T;
\*   src/a/c.rs:  type L0 = L1;  type L1 = L2;  ...  type L10 = L11;  struct L11;
\*   src/a/c.rs:  type Alias1 = Other;  struct Other;
AliasSources ==
    LET SrcAliasLib == Parsed(<<P(<<"crate", "a">>, UseRename("Alias2", "Mine")),
                                P(<<"crate", "b">>, UseRename("T", "U"))>>)
        SrcAliasA == Parsed(<<ItemType("Alias2", TypePath(<<"Alias1">>)),
                              ItemType("Alias1", TypePath(<<"Base">>)),
                              ItemStruct("Base")>>)
        SrcAliasB == Parsed(<<ItemType("Ping", TypePath(<<"Pong">>)),
                              ItemType("Pong", TypePath(<<"Ping">>)),
                              ItemType("Own", TypePath(<<"other", "Own">>)),
                              P(<<"crate">>, UseRename("U", "T"))>>)
        SrcAliasLong ==
            Parsed(<<ItemType("L0", TypePath(<<"L1">>)), ItemType("L1", TypePath(<<"L2">>)),
                     ItemType("L2", TypePath(<<"L3">>)), ItemType("L3", TypePath(<<"L4">>)),
                     ItemType("L4", TypePath(<<"L5">>)), ItemType("L5", TypePath(<<"L6">>)),
                     ItemType("L6", TypePath(<<"L7">>)), ItemType("L7", TypePath(<<"L8">>)),
                     ItemType("L8", TypePath(<<"L9">>)), ItemType("L9", TypePath(<<"L10">>)),
                     ItemType("L10", TypePath(<<"L11">>)), ItemStruct("L11")>>)
        SrcAliasOther == Parsed(<<ItemType("Alias1", TypePath(<<"Other">>)),
                                  ItemStruct("Other")>>)
    IN {[path |-> LibRs, content |-> SrcAliasLib],
        [path |-> ARs, content |-> SrcAliasA],
        [path |-> BRs, content |-> SrcAliasB],
        [path |-> CRs, content |-> SrcAliasLong],
        [path |-> CRs, content |-> SrcAliasOther]}

\* Names handed to resolve_alias_target.
AliasNames ==
    {"Alias2", "Alias1", "Base", "Mine", "Ping", "Own", "L0", "L1", "L11", "U"}

\* ModuleResolver::resolve_alias_target(type_name, from_file)
ResolveAliasTarget(type_name, from_file, order) ==
    /\ ret' = [op |-> "resolve_alias_target", type_name |-> type_name,
               from_file |-> from_file,
               result |-> resolve_alias_target(type_name, from_file, order)]
    /\ UNCHANGED <<files, type_definitions, module_to_file, calls, run_vars>>

NextAlias ==
    \/ \E src \in AliasSources :
          calls < MaxAliasCalls /\ ParseFile(src.path, src.content)
    \/ \E n \in AliasNames, f \in FromFiles, o \in IterationOrders(DOMAIN files) :
          ResolveAliasTarget(n, f, o)

SpecAlias == Init /\ [][NextAlias]_vars

----------------------------------------------------------------------------
(* The generate pipeline (src/src/main.rs): run_generate scans the files,  *)
(* parses each into the resolver and into ParseResult, collects the types  *)
(* the commands use and writes the two output files.                       *)

\* Items as parse_commands and parse_types read them: a struct or enum with
\* its derive attribute and fields, a function with #[tauri::command].
TypeGeneric(name, args) == [kind |-> "Path", segments |-> <<name>>, args |-> args]
TypeTuple(elems) == [kind |-> "Tuple", elems |-> elems]
Field(n, ty) == [ident |-> n, ty |-> ty]
\* syn::Fields: style is "Named", "Unnamed" or "Unit".
Fields(style, items) == [style |-> style, items |-> items]
Variant(n, fields) == [ident |-> n, fields |-> fields]
ItemStructDef(n, derive, fields) ==
    [kind |-> "Struct", ident |-> n, derive |-> derive, fields |-> fields]
ItemEnumDef(n, derive, variants) ==
    [kind |-> "Enum", ident |-> n, derive |-> derive, variants |-> variants]
ItemCommand(n, inputs, output) ==
    [kind |-> "Fn", command |-> TRUE, ident |-> n, inputs |-> inputs, output |-> output]

\* RustType
Primitive(n) == [t |-> "Primitive", name |-> n]
Custom(n) == [t |-> "Custom", name |-> n]
RustVec(inner) == [t |-> "Vec", inner |-> inner]
RustOption(inner) == [t |-> "Option", inner |-> inner]
RustResult(ok) == [t |-> "Result", inner |-> ok]
RustHashMap(k, v) == [t |-> "HashMap", key |-> k, value |-> v]
RustTuple(ts) == [t |-> "Tuple", types |-> ts]
Unit == [t |-> "Unit"]
Unknown == [t |-> "Unknown"]

\* The names parse_type_with_context turns into RustType::Primitive.
PrimitiveNames ==
    {"String", "str", "char", "i8", "i16", "i32", "i64", "i128", "isize",
     "u8", "u16", "u32", "u64", "u128", "usize", "f32", "f64", "bool",
     "DateTime", "NaiveDateTime", "NaiveDate", "NaiveTime", "OffsetDateTime",
     "PrimitiveDateTime", "Date", "Time", "Uuid", "Decimal", "BigDecimal",
     "PathBuf", "Path", "Url", "IpAddr", "Ipv4Addr", "Ipv6Addr", "Duration",
     "Value", "Bytes"}

RECURSIVE parse_type(_)
\* parse_type: a path is read by its last segment only.
parse_type(ty) ==
    CASE ty.kind = "Path" ->
           IF ty.segments = <<>> THEN Unknown
           ELSE LET name == Last(ty.segments)
                    args == IF "args" \in DOMAIN ty THEN ty.args ELSE <<>>
                IN CASE name \in {"String", "str", "char"} -> Primitive("String")
                     [] name \in PrimitiveNames \ {"String", "str", "char"} ->
                          Primitive(name)
                     [] name = "Vec" ->
                          IF Len(args) >= 1 THEN RustVec(parse_type(args[1]))
                          ELSE Unknown
                     [] name = "Option" ->
                          IF Len(args) >= 1 THEN RustOption(parse_type(args[1]))
                          ELSE Unknown
                     [] name = "Result" ->
                          IF Len(args) >= 1 THEN RustResult(parse_type(args[1]))
                          ELSE Unknown
                     [] name \in {"HashMap", "BTreeMap"} ->
                          IF Len(args) >= 2
                          THEN RustHashMap(parse_type(args[1]), parse_type(args[2]))
                          ELSE Unknown
                     [] OTHER -> Custom(name)
      [] ty.kind = "Tuple" ->
           IF "elems" \notin DOMAIN ty \/ ty.elems = <<>> THEN Unit
           ELSE RustTuple([i \in DOMAIN ty.elems |-> parse_type(ty.elems[i])])
      [] ty.kind = "Reference" -> parse_type(ty.elem)
      [] ty.kind = "Slice" -> RustVec(parse_type(ty.elem))
      [] OTHER -> Unknown

\* Types Tauri injects; an argument of such a type is not a command argument.
is_tauri_special_type(ty) ==
    /\ ty.kind = "Path"
    /\ ty.segments # <<>>
    /\ Last(ty.segments) \in {"State", "Window", "AppHandle", "Webview", "WebviewWindow"}

is_tauri_command(item) == "command" \in DOMAIN item /\ item.command

RECURSIVE parse_fn_args(_)
parse_fn_args(inputs) ==
    IF inputs = <<>> THEN <<>>
    ELSE LET arg == Head(inputs)
         IN (IF is_tauri_special_type(arg.ty) THEN <<>>
             ELSE <<[name |-> arg.ident, ty |-> parse_type(arg.ty)]>>)
            \o parse_fn_args(Tail(inputs))

parse_return_type(output) ==
    IF ~output.some THEN None
    ELSE LET rust_type == parse_type(output.value)
         IN IF rust_type = Unit THEN None ELSE Some(rust_type)

parse_command_fn(func, source_file) ==
    [name |-> func.ident,
     args |-> parse_fn_args(func.inputs),
     return_type |-> parse_return_type(func.output),
     source_file |-> source_file]

RECURSIVE commands_of(_, _, _)
\* The loop of parse_commands; nested: inside an inline mod only functions count.
commands_of(items, source_file, nested) ==
    IF items = <<>> THEN <<>>
    ELSE LET item == Head(items)
             here ==
               CASE item.kind = "Fn" /\ is_tauri_command(item) ->
                      <<parse_command_fn(item, source_file)>>
                 [] item.kind = "Mod" /\ ~nested /\ item.inline ->
                      commands_of(item.items, source_file, TRUE)
                 [] OTHER -> <<>>
         IN here \o commands_of(Tail(items), source_file, nested)

\* parse_commands(content, source_file): None stands for Err.
parse_commands(content, source_file) ==
    IF ~content.ok THEN None
    ELSE Some(commands_of(content.items, source_file, FALSE))

is_serializable(item) == "derive" \in DOMAIN item /\ item.derive

parse_fields(fs) == [i \in DOMAIN fs |-> [name |-> fs[i].ident, ty |-> parse_type(fs[i].ty)]]

parse_struct(item) ==
    [name |-> item.ident,
     fields |-> CASE item.fields.style = "Named" -> parse_fields(item.fields.items)
                  [] item.fields.style = "Unnamed" ->
                       [i \in DOMAIN item.fields.items |->
                           [name |-> "field", ty |-> parse_type(item.fields.items[i])]]
                  [] OTHER -> <<>>]

\* parse_enum; variant_data is what its `match &variant.fields` yields.
variant_data(fields) ==
    CASE fields.style = "Unnamed" ->
           [style |-> "Tuple",
            types |-> [i \in DOMAIN fields.items |-> parse_type(fields.items[i])]]
      [] fields.style = "Named" ->
           [style |-> "Struct", fields |-> parse_fields(fields.items)]
      [] OTHER -> [style |-> "Unit"]

parse_enum(item) ==
    [name |-> item.ident,
     variants |-> [i \in DOMAIN item.variants |->
                      [name |-> item.variants[i].ident,
                       data |-> variant_data(item.variants[i].fields)]]]

\* RustStruct.source_file / RustEnum.source_file: the file the declaration
\* was parsed from.
with_source_file(decl, source_file) ==
    [x \in (DOMAIN decl) \cup {"source_file"} |->
        IF x = "source_file" THEN source_file ELSE decl[x]]

RECURSIVE types_of(_, _, _, _)
\* The loop of parse_types for one kind of item ("Struct" or "Enum").
types_of(items, kind, source_file, nested) ==
    IF items = <<>> THEN <<>>
    ELSE LET item == Head(items)
             here ==
               CASE item.kind = kind /\ is_serializable(item) ->
                      <<with_source_file(IF kind = "Struct" THEN parse_struct(item)
                                         ELSE parse_enum(item), source_file)>>
                 [] item.kind = "Mod" /\ ~nested /\ item.inline ->
                      types_of(item.items, kind, source_file, TRUE)
                 [] OTHER -> <<>>
         IN here \o types_of(Tail(items), kind, source_file, nested)

\* parse_types(content, source_file): None stands for Err.
parse_types(content, source_file) ==
    IF ~content.ok THEN None
    ELSE Some([structs |-> types_of(content.items, "Struct", source_file, FALSE),
               enums   |-> types_of(content.items, "Enum", source_file, FALSE)])

\* What `if let Some(source) = resolver.resolve_type(..)` binds: the file of
\* a successful resolution.
resolution_source(result) ==
    IF result.tag \in {"Found", "FoundWithAlias"} THEN Some(result.file) ELSE None

\* A resolve_type call that does not return.
NoReturn(result) == result.tag \in {"Diverged", "Panicked"}

Contains(s, x) == \E i \in DOMAIN s : s[i] = x

\* The state collect_used_types works on. stuck: a call it made has not returned.
CollectorState(resolved, confl, worklist) ==
    [resolved |-> resolved, conflicts |-> confl, to_process |-> worklist, stuck |-> FALSE]

\* A variant of merge_source that lets a later resolution replace the entry.
merge_source_overwrites(st, name, source, push) ==
    [st EXCEPT !.resolved = MapInsert(@, name, source),
               !.to_process = IF push /\ name \notin DOMAIN st.resolved
                              THEN Append(@, <<name, source>>) ELSE @]

\* The block under `if let Some(source) = resolver.resolve_type(..)`, which
\* the code has in seeding and, with the push, in both branches of closure.
merge_source(st, name, source, push) ==
    IF name \in DOMAIN st.resolved
    THEN IF st.resolved[name] # source
         THEN LET conflict_list ==
                    IF name \in DOMAIN st.conflicts THEN st.conflicts[name]
                    ELSE <<st.resolved[name]>>
              IN [st EXCEPT !.conflicts =
                     MapInsert(@, name,
                         IF Contains(conflict_list, source) THEN conflict_list
                         ELSE Append(conflict_list, source))]
         ELSE st
    ELSE [st EXCEPT !.resolved = MapInsert(@, name, source),
                    !.to_process = IF push THEN Append(@, <<name, source>>) ELSE @]

\* A variant of merge that takes the asking file as the source of a
\* reference that did not resolve.
merge_failure_as_source(st, name, from_file, push) ==
    LET result == resolve_type(<<name>>, from_file)
        source == resolution_source(result)
    IN IF st.stuck \/ NoReturn(result) THEN [st EXCEPT !.stuck = TRUE]
       ELSE merge_source(st, name, IF source.some THEN source.value ELSE from_file, push)

\* One reference: the resolve_type call and what is done with its result.
merge(st, name, from_file, push) ==
    LET result == resolve_type(<<name>>, from_file)
        source == resolution_source(result)
    IN IF st.stuck \/ NoReturn(result) THEN [st EXCEPT !.stuck = TRUE]
       ELSE IF source.some THEN merge_source(st, name, source.value, push)
       ELSE st

RECURSIVE collect_types_with_resolver(_, _, _)
RECURSIVE collect_types_of_each(_, _, _)
collect_types_of_each(tys, from_file, st) ==
    IF tys = <<>> THEN st
    ELSE collect_types_of_each(Tail(tys), from_file,
             collect_types_with_resolver(Head(tys), from_file, st))

\* collect_types_with_resolver(ty, from_file, resolver, resolved, conflicts)
collect_types_with_resolver(ty, from_file, st) ==
    CASE ty.t = "Custom" -> merge(st, ty.name, from_file, FALSE)
      [] ty.t \in {"Vec", "Option", "Result"} ->
           collect_types_with_resolver(ty.inner, from_file, st)
      [] ty.t = "HashMap" ->
           collect_types_with_resolver(ty.value, from_file,
               collect_types_with_resolver(ty.key, from_file, st))
      [] ty.t = "Tuple" -> collect_types_of_each(ty.types, from_file, st)
      [] OTHER -> st

RECURSIVE collect_custom_types_recursive(_, _)
RECURSIVE collect_custom_types_of_each(_, _)
collect_custom_types_of_each(tys, types) ==
    IF tys = <<>> THEN types
    ELSE collect_custom_types_of_each(Tail(tys),
             collect_custom_types_recursive(Head(tys), types))

collect_custom_types_recursive(ty, types) ==
    CASE ty.t = "Custom" ->
           IF Contains(types, ty.name) THEN types ELSE Append(types, ty.name)
      [] ty.t \in {"Vec", "Option", "Result"} ->
           collect_custom_types_recursive(ty.inner, types)
      [] ty.t = "HashMap" ->
           collect_custom_types_recursive(ty.value,
               collect_custom_types_recursive(ty.key, types))
      [] ty.t = "Tuple" -> collect_custom_types_of_each(ty.types, types)
      [] OTHER -> types

collect_custom_types_from_rust_type(ty) == collect_custom_types_recursive(ty, <<>>)

\* The tables ModuleResolver::parse_file(path, content, base_path) leaves behind.
\* A variant of parse_file that registers an empty scope for a file it could
\* not parse.
parse_file_registers_on_error(path, content) ==
    LET scope0 == NewScope(path_to_module(path, base_path))
        st == IF content.ok
              THEN parse_items(content.items, path,
                               [scope |-> scope0, defs |-> type_definitions])
              ELSE [scope |-> scope0, defs |-> type_definitions]
    IN [ok |-> content.ok,
        files |-> MapInsert(files, path, st.scope),
        type_definitions |-> st.defs,
        module_to_file |-> MapInsert(module_to_file, st.scope.module_path, path)]

parse_file(path, content) ==
    IF ~content.ok
    THEN [ok |-> FALSE, files |-> files, type_definitions |-> type_definitions,
          module_to_file |-> module_to_file]
    ELSE LET scope0 == NewScope(path_to_module(path, base_path))
             st == parse_items(content.items, path,
                               [scope |-> scope0, defs |-> type_definitions])
         IN [ok |-> TRUE,
             files |-> MapInsert(files, path, st.scope),
             type_definitions |-> st.defs,
             module_to_file |-> MapInsert(module_to_file, st.scope.module_path, path)]

\* run_generate, one turn of `for file_path in &rust_files`: the file goes to
\* the resolver, to parse_commands and to parse_types; a failure of any of
\* the three is a warning.
ScanFile ==
    /\ pc = "scan"
    /\ rust_files # <<>>
    /\ LET file == Head(rust_files)
           scanned == parse_file(file.path, file.content)
           commands == parse_commands(file.content, file.path)
           types == parse_types(file.content, file.path)
       IN /\ files' = scanned.files
          /\ type_definitions' = scanned.type_definitions
          /\ module_to_file' = scanned.module_to_file
          /\ ret' = [op |-> "parse_file", path |-> file.path, ok |-> scanned.ok]
          /\ parse_result' =
               [commands |-> parse_result.commands \o
                                (IF commands.some THEN commands.value ELSE <<>>),
                structs  |-> parse_result.structs \o
                                (IF types.some THEN types.value.structs ELSE <<>>),
                enums    |-> parse_result.enums \o
                                (IF types.some THEN types.value.enums ELSE <<>>)]
    /\ calls' = calls + 1
    /\ rust_files' = Tail(rust_files)
    /\ UNCHANGED <<pc, next_cmd, resolved_types, conflicts, to_process, processed,
                   previous, written>>

\* A variant of StartCollect that does not wait for the last file.
StartCollectEarly ==
    /\ pc = "scan"
    /\ pc' = "seed"
    /\ UNCHANGED <<files, type_definitions, module_to_file, ret, calls, rust_files, parse_result,
                   next_cmd, resolved_types, conflicts, to_process, processed,
                   previous, written>>

\* run_generate calls collect_used_types once every file is parsed.
StartCollect ==
    /\ pc = "scan"
    /\ rust_files = <<>>
    /\ pc' = "seed"
    /\ UNCHANGED <<files, type_definitions, module_to_file, ret, calls, rust_files, parse_result,
                   next_cmd, resolved_types, conflicts, to_process, processed,
                   previous, written>>

RECURSIVE seed_args(_, _, _)
seed_args(args, cmd_file, st) ==
    IF args = <<>> THEN st
    ELSE seed_args(Tail(args), cmd_file,
             collect_types_with_resolver(Head(args).ty, cmd_file, st))

\* What one turn of `for cmd in &parse_result.commands` does to the maps.
seed_command(cmd, st) ==
    LET after_args == seed_args(cmd.args, cmd.source_file, st)
    IN IF cmd.return_type.some
       THEN collect_types_with_resolver(cmd.return_type.value, cmd.source_file, after_args)
       ELSE after_args

\* collect_used_types: seeding from the next command.
SeedCommand ==
    /\ pc = "seed"
    /\ next_cmd <= Len(parse_result.commands)
    /\ LET st == seed_command(parse_result.commands[next_cmd],
                              CollectorState(resolved_types, conflicts, <<>>))
       IN IF st.stuck
          THEN /\ pc' = "diverged"
               /\ UNCHANGED <<next_cmd, resolved_types, conflicts, to_process, processed>>
          ELSE /\ resolved_types' = st.resolved
               /\ conflicts' = st.conflicts
               /\ next_cmd' = next_cmd + 1
               /\ UNCHANGED <<pc, to_process, processed>>
    /\ UNCHANGED <<files, type_definitions, module_to_file, ret, calls, rust_files, parse_result, previous, written>>

\* collect_used_types: the worklist is filled from resolved_types.iter(),
\* in the order the map hands out its entries.
StartClosure(order) ==
    /\ pc = "seed"
    /\ next_cmd > Len(parse_result.commands)
    /\ to_process' = [i \in DOMAIN order |-> <<order[i], resolved_types[order[i]]>>]
    /\ processed' = {}
    /\ pc' = "closure"
    /\ UNCHANGED <<files, type_definitions, module_to_file, ret, calls, rust_files, parse_result,
                   next_cmd, resolved_types, conflicts, previous, written>>

\* struct_by_file.get / enum_by_file.get: the declaration collected last
\* under the key (name, source_file).
by_file(decls, key) ==
    LET hits == {i \in DOMAIN decls : <<decls[i].name, decls[i].source_file>> = key}
    IN IF hits = {} THEN None
       ELSE Some(decls[CHOOSE i \in hits : \A j \in hits : j <= i])

RECURSIVE merge_each(_, _, _)
\* `for t in nested_names { .. }`
merge_each(names, type_file, st) ==
    IF names = <<>> THEN st
    ELSE merge_each(Tail(names), type_file, merge(st, Head(names), type_file, TRUE))

RECURSIVE expand_fields(_, _, _)
\* `for field in &s.fields { .. }`
expand_fields(fields, type_file, st) ==
    IF fields = <<>> THEN st
    ELSE expand_fields(Tail(fields), type_file,
             merge_each(collect_custom_types_from_rust_type(Head(fields).ty),
                        type_file, st))

RECURSIVE flat_map_custom_types(_)
\* iter().flat_map(collect_custom_types_from_rust_type).collect()
flat_map_custom_types(tys) ==
    IF tys = <<>> THEN <<>>
    ELSE collect_custom_types_from_rust_type(Head(tys)) \o flat_map_custom_types(Tail(tys))

variant_nested_names(data) ==
    CASE data.style = "Tuple" -> flat_map_custom_types(data.types)
      [] data.style = "Struct" ->
           flat_map_custom_types([i \in DOMAIN data.fields |-> data.fields[i].ty])
      [] OTHER -> <<>>

RECURSIVE expand_variants(_, _, _)
\* `for variant in &e.variants { .. }`
expand_variants(variants, type_file, st) ==
    IF variants = <<>> THEN st
    ELSE expand_variants(Tail(variants), type_file,
             merge_each(variant_nested_names(Head(variants).data), type_file, st))

\* A variant of expand that resolves in the file of the first command.
expand_from_command_file(key, st) ==
    LET s == by_file(parse_result.structs, key)
        e == by_file(parse_result.enums, key)
        cmd_file == parse_result.commands[1].source_file
        after_struct == IF s.some THEN expand_fields(s.value.fields, cmd_file, st) ELSE st
    IN IF e.some THEN expand_variants(e.value.variants, cmd_file, after_struct)
       ELSE after_struct

\* The body of `while let Some((type_name, type_file)) = to_process.pop()`
\* for a pair not yet processed.
expand(key, st) ==
    LET s == by_file(parse_result.structs, key)
        e == by_file(parse_result.enums, key)
        after_struct == IF s.some THEN expand_fields(s.value.fields, key[2], st) ELSE st
    IN IF e.some THEN expand_variants(e.value.variants, key[2], after_struct)
       ELSE after_struct

\* collect_used_types: one turn of the worklist loop.
ClosureStep ==
    /\ pc = "closure"
    /\ to_process # <<>>
    /\ LET key == Last(to_process)
           rest == Front(to_process)
       IN IF key \in processed
          THEN /\ to_process' = rest
               /\ UNCHANGED <<pc, resolved_types, conflicts, processed>>
          ELSE LET st == expand(key, CollectorState(resolved_types, conflicts, rest))
               IN IF st.stuck
                  THEN /\ pc' = "diverged"
                       /\ UNCHANGED <<resolved_types, conflicts, to_process, processed>>
                  ELSE /\ processed' = processed \cup {key}
                       /\ resolved_types' = st.resolved
                       /\ conflicts' = st.conflicts
                       /\ to_process' = st.to_process
                       /\ UNCHANGED pc
    /\ UNCHANGED <<files, type_definitions, module_to_file, ret, calls, rust_files, parse_result,
                   next_cmd, previous, written>>

\* collect_used_types returns TypeCollectionResult { resolved, conflicts }.
ReturnCollection ==
    /\ pc = "closure"
    /\ to_process = <<>>
    /\ pc' = "collected"
    /\ UNCHANGED <<files, type_definitions, module_to_file, ret, calls, rust_files, parse_result,
                   next_cmd, resolved_types, conflicts, to_process, processed,
                   previous, written>>

RECURSIVE filter_used(_, _, _)
\* The filter loops of run_generate: a declaration is kept if its name
\* resolved to its own file and no declaration of that name was kept before.
filter_used(decls, used_types, seen) ==
    IF decls = <<>> THEN <<>>
    ELSE LET d == Head(decls)
             keep == /\ d.name \notin seen
                     /\ d.name \in DOMAIN used_types
                     /\ used_types[d.name] = d.source_file
         IN (IF keep THEN <<d>> ELSE <<>>)
            \o filter_used(Tail(decls), used_types,
                           IF keep THEN seen \cup {d.name} ELSE seen)

\* A variant of CheckConflicts that goes on to write whatever was collected.
CheckConflictsIgnored ==
    /\ pc = "collected"
    /\ pc' = "write_types"
    /\ UNCHANGED <<files, type_definitions, module_to_file, ret, calls, rust_files,
                   parse_result, next_cmd, resolved_types, conflicts, to_process,
                   processed, previous, written>>

\* run_generate after the collection: non-empty conflicts end the run.
CheckConflicts ==
    /\ pc = "collected"
    /\ pc' = IF DOMAIN conflicts # {} THEN "error" ELSE "write_types"
    /\ UNCHANGED <<files, type_definitions, module_to_file, ret, calls, rust_files, parse_result,
                   next_cmd, resolved_types, conflicts, to_process, processed,
                   previous, written>>

\* What one output file's step leaves on the file system:
\* create_dir_all(parent) if the parent is missing, then fs::write.
write_output(which, content, parent_exists, outcome) ==
    (IF ~parent_exists /\ outcome # "create_dir_failed"
     THEN <<[call |-> "create_dir_all", of |-> which]>> ELSE <<>>)
    \o (IF outcome = "ok"
        THEN <<[call |-> "write", of |-> which, content |-> content]>> ELSE <<>>)

WriteOutcomes(parent_exists) ==
    {"ok", "write_failed"} \cup (IF parent_exists THEN {} ELSE {"create_dir_failed"})

\* run_generate: the types file is generated from the filtered declarations
\* and written.
WriteTypes(parent_exists, outcome) ==
    /\ pc = "write_types"
    /\ outcome \in WriteOutcomes(parent_exists)
    /\ LET types_content ==
             [structs |-> filter_used(parse_result.structs, resolved_types, {}),
              enums   |-> filter_used(parse_result.enums, resolved_types, {})]
       IN written' = written \o write_output("types_file", types_content,
                                             parent_exists, outcome)
    /\ pc' = IF outcome = "ok" THEN "write_commands" ELSE "error"
    /\ UNCHANGED <<files, type_definitions, module_to_file, ret, calls, rust_files, parse_result,
                   next_cmd, resolved_types, conflicts, to_process, processed, previous>>

\* run_generate: the commands file is generated and written; "Done!".
WriteCommands(parent_exists, outcome) ==
    /\ pc = "write_commands"
    /\ outcome \in WriteOutcomes(parent_exists)
    /\ written' = written \o write_output("commands_file", parse_result.commands,
                                          parent_exists, outcome)
    /\ pc' = IF outcome = "ok" THEN "done" ELSE "error"
    /\ UNCHANGED <<files, type_definitions, module_to_file, ret, calls, rust_files, parse_result,
                   next_cmd, resolved_types, conflicts, to_process, processed, previous>>

\* The collector is run a second time on the same ParseResult and resolver.
Recollect ==
    /\ pc = "collected"
    /\ previous = None
    /\ previous' = Some([resolved |-> resolved_types, conflicts |-> conflicts])
    /\ pc' = "seed"
    /\ next_cmd' = 1
    /\ resolved_types' = EmptyMap
    /\ conflicts' = EmptyMap
    /\ to_process' = <<>>
    /\ processed' = {}
    /\ UNCHANGED <<files, type_definitions, module_to_file, ret, calls, rust_files, parse_result, written>>

\* The projects run_generate is run on. A project is the set of its files;
\* the scanner walks the directory in the order the file system lists it.
Ty(n) == TypePath(<<n>>)
SerStruct(n, fields) == ItemStructDef(n, TRUE, Fields("Named", fields))
SrcFile(path, items) == [path |-> path, content |-> Parsed(items)]

\* a.rs declares User{id, name}; b.rs imports it and has get_user(id) -> User.
ProjectA ==
    {SrcFile(ARs, <<SerStruct("User", <<Field("id", Ty("i32")),
                                        Field("name", Ty("String"))>>)>>),
     SrcFile(BRs, <<P(<<"crate", "a">>, UseName("User")),
                    ItemCommand("get_user", <<Field("id", Ty("i32"))>>,
                                Some(Ty("User"))),
                    ItemCommand("find_user",
                                <<Field("state", TypeGeneric("State", <<Ty("Db")>>)),
                                  Field("name", TypeReference(Ty("str")))>>,
                                Some(TypeGeneric("Result", <<Ty("User"), Ty("String")>>)))>>)}

\* a.rs and b.rs both declare User; a/c.rs, sibling of neither, returns User
\* and takes an argument of a type nothing declares, and returns its own
\* Holder{u: User, q: Query}.
ProjectB ==
    {SrcFile(ARs, <<SerStruct("User", <<Field("id", Ty("i32"))>>)>>),
     SrcFile(BRs, <<SerStruct("User", <<Field("name", Ty("String"))>>)>>),
     SrcFile(CRs, <<SerStruct("Holder", <<Field("u", Ty("User")),
                                          Field("q", Ty("Query"))>>),
                    ItemCommand("get_user", <<Field("q", Ty("Query"))>>,
                                Some(Ty("User"))),
                    ItemCommand("hold", <<>>, Some(Ty("Holder")))>>)}

\* a.rs declares Item{tag: Tag, extra: Vec<Option<Extra>>}, the enum Tag with
\* a tuple and a struct variant, and what they mention; a/c.rs declares the
\* same names again; lib.rs imports only Item and returns it.
ProjectC ==
    {SrcFile(ARs, <<SerStruct("Item", <<Field("tag", Ty("Tag")),
                        Field("extra", TypeGeneric("Vec",
                            <<TypeGeneric("Option", <<Ty("Extra")>>)>>))>>),
                    ItemEnumDef("Tag", TRUE,
                        <<Variant("Plain", Fields("Unit", <<>>)),
                          Variant("One", Fields("Unnamed",
                              <<TypeGeneric("Result", <<Ty("Kind"), Ty("String")>>)>>)),
                          Variant("Two", Fields("Named", <<Field("inner",
                              TypeGeneric("HashMap", <<Ty("String"),
                                  TypeTuple(<<Ty("Kind"), Ty("Deep")>>)>>))>>))>>),
                    ItemStructDef("Extra", TRUE, Fields("Unnamed", <<Ty("u8")>>)),
                    ItemStructDef("Kind", TRUE, Fields("Unit", <<>>)),
                    ItemStructDef("Deep", TRUE, Fields("Unit", <<>>))>>),
     SrcFile(CRs, <<ItemStructDef("Tag", TRUE, Fields("Unit", <<>>)),
                    ItemStructDef("Extra", TRUE, Fields("Unit", <<>>)),
                    ItemStructDef("Kind", TRUE, Fields("Unit", <<>>)),
                    ItemStructDef("Deep", TRUE, Fields("Unit", <<>>))>>),
     SrcFile(LibRs, <<P(<<"crate", "a">>, UseName("Item")),
                      ItemCommand("get_item", <<>>, Some(Ty("Item")))>>)}

\* b.rs returns a::Config, which is a.rs's; a/c.rs returns its own Config.
ProjectD ==
    {SrcFile(ARs, <<SerStruct("Config", <<Field("port", Ty("u16"))>>)>>),
     SrcFile(BRs, <<P(<<"crate">>, UseName("a")),
                    ItemCommand("load", <<>>, Some(TypePath(<<"a", "Config">>)))>>),
     SrcFile(CRs, <<SerStruct("Config", <<Field("name", Ty("String"))>>),
                    ItemCommand("own", <<>>, Some(Ty("Config")))>>)}

\* a.rs declares A{c: T} and T; b.rs declares B{c: T}, its own T{x: X} and
\* X; lib.rs returns A and B.
ProjectE ==
    {SrcFile(ARs, <<SerStruct("A", <<Field("c", Ty("T"))>>),
                    SerStruct("T", <<Field("n", Ty("i32"))>>)>>),
     SrcFile(BRs, <<SerStruct("B", <<Field("c", Ty("T"))>>),
                    SerStruct("T", <<Field("x", Ty("X"))>>),
                    SerStruct("X", <<Field("n", Ty("i32"))>>)>>),
     SrcFile(LibRs, <<P(<<"crate", "a">>, UseName("A")),
                      P(<<"crate", "b">>, UseName("B")),
                      ItemCommand("get_a", <<>>, Some(Ty("A"))),
                      ItemCommand("get_b", <<>>, Some(Ty("B")))>>)}

\* a.rs declares A{b: B, again: Vec<A>} and B{a: A}; lib.rs returns A;
\* main.rs does not parse.
ProjectF ==
    {SrcFile(ARs, <<SerStruct("A", <<Field("b", Ty("B")),
                        Field("again", TypeGeneric("Vec", <<Ty("A")>>))>>),
                    SerStruct("B", <<Field("a", Ty("A"))>>)>>),
     SrcFile(LibRs, <<P(<<"crate", "a">>, UseName("A")),
                      ItemCommand("get_a", <<>>, Some(Ty("A")))>>),
     [path |-> MainRs, content |-> Malformed]}

\* lib.rs has `use crate::b::T as U;` and returns U; b.rs has
\* `pub use crate::U as T;`.
ProjectG ==
    {SrcFile(LibRs, <<P(<<"crate", "b">>, UseRename("T", "U")),
                      ItemCommand("get_u", <<>>, Some(Ty("U")))>>),
     SrcFile(BRs, <<P(<<"crate">>, UseRename("U", "T"))>>)}

\* ProjectD with a third Config in main.rs and a second use of a/c.rs's own.
ProjectH ==
    {SrcFile(ARs, <<SerStruct("Config", <<Field("port", Ty("u16"))>>)>>),
     SrcFile(BRs, <<P(<<"crate">>, UseName("a")),
                    ItemCommand("load", <<>>, Some(TypePath(<<"a", "Config">>)))>>),
     SrcFile(CRs, <<SerStruct("Config", <<Field("name", Ty("String"))>>),
                    ItemCommand("own", <<>>, Some(Ty("Config"))),
                    ItemCommand("own_again", <<Field("c", Ty("Config"))>>, None)>>),
     SrcFile(MainRs, <<SerStruct("Config", <<Field("debug", Ty("bool"))>>),
                       ItemCommand("mine", <<>>,
                                   Some(TypeGeneric("Option", <<Ty("Config")>>)))>>)}

\* lib.rs declares struct T, and in an inline module an enum T and a second
\* struct T; get_t() returns T.
ProjectI ==
    {SrcFile(LibRs, <<SerStruct("T", <<Field("x", Ty("i32"))>>),
                      ItemMod(<<ItemEnumDef("T", TRUE,
                                            <<Variant("Plain", Fields("Unit", <<>>))>>),
                                SerStruct("T", <<Field("y", Ty("String"))>>)>>),
                      ItemCommand("get_t", <<>>, Some(Ty("T")))>>)}

Projects ==
    {ProjectA, ProjectB, ProjectC, ProjectD, ProjectE, ProjectF, ProjectG, ProjectH,
     ProjectI}

InitPipeline ==
    /\ files = EmptyMap
    /\ type_definitions = EmptyMap
    /\ module_to_file = EmptyMap
    /\ ret = [op |-> "new"]
    /\ calls = 0
    /\ pc = "scan"
    /\ \E project \in Projects : rust_files \in IterationOrders(project)
    /\ parse_result = [commands |-> <<>>, structs |-> <<>>, enums |-> <<>>]
    /\ next_cmd = 1
    /\ resolved_types = EmptyMap
    /\ conflicts = EmptyMap
    /\ to_process = <<>>
    /\ processed = {}
    /\ previous = None
    /\ written = <<>>

NextPipeline ==
    \/ ScanFile
    \/ StartCollect
    \/ SeedCommand
    \/ \E order \in IterationOrders(DOMAIN resolved_types) : StartClosure(order)
    \/ ClosureStep
    \/ ReturnCollection
    \/ CheckConflicts
    \/ \E parent_exists \in BOOLEAN : \E outcome \in WriteOutcomes(parent_exists) :
          WriteTypes(parent_exists, outcome)
    \/ \E parent_exists \in BOOLEAN : \E outcome \in WriteOutcomes(parent_exists) :
          WriteCommands(parent_exists, outcome)

SpecPipeline == InitPipeline /\ [][NextPipeline]_vars

\* run_generate is one sequential call: while a step is left, it is taken.
SpecPipelineFair == SpecPipeline /\ WF_vars(NextPipeline)

\* The collector alone, run up to twice on what the scan produced.
NextCollector ==
    \/ ScanFile
    \/ StartCollect
    \/ SeedCommand
    \/ \E order \in IterationOrders(DOMAIN resolved_types) : StartClosure(order)
    \/ ClosureStep
    \/ ReturnCollection
    \/ Recollect

SpecCollector == InitPipeline /\ [][NextCollector]_vars

(***************************************************************************)
(* Qualified paths: the resolver on relative, imported and absolute paths  *)
(***************************************************************************)
MaxPathCalls == 3

\* The files of the qualified-path runs:
\*   src/a.rs:           struct T;  struct U;  use crate::a as c;
\*   src/a.rs:           struct T;  mod c;
\*   src/a/c.rs:         struct T;  struct U;
\*   src/b.rs:           struct T;  use crate::a::c;
\*   src/b.rs:           pub use crate::a::c::U;  pub use crate::a::*;
\*   src/a/b/c/deep.rs:  (empty)
\*   src/types.rs:       struct Top;
PathSources ==
    {[path |-> ARs,
      content |-> Parsed(<<ItemStruct("T"), ItemStruct("U"),
                           P(<<"crate">>, UseRename("a", "c"))>>)],
     [path |-> ARs, content |-> Parsed(<<ItemStruct("T"), ItemModDecl>>)],
     [path |-> CRs, content |-> Parsed(<<ItemStruct("T"), ItemStruct("U")>>)],
     [path |-> BRs,
      content |-> Parsed(<<ItemStruct("T"), P(<<"crate", "a">>, UseName("c"))>>)],
     [path |-> BRs,
      content |-> Parsed(<<P(<<"crate", "a", "c">>, UseName("U")),
                           P(<<"crate", "a">>, UseGlob)>>)],
     [path |-> DeepRs, content |-> Parsed(<<>>)],
     [path |-> TypesRs, content |-> Parsed(<<ItemStruct("Top")>>)]}

\* Calls of resolve_type: the path, cut at "::", and the file it is written in.
PathQueries ==
    LET Q(tp, f) == [type_path |-> tp, from_file |-> f]
    IN {Q(<<"super", "super", "super", "super", "types", "Top">>, DeepRs),
        Q(<<"super", "super", "super", "super", "super", "types", "Top">>, DeepRs),
        Q(<<"crate", "x", "Top">>, DeepRs),
        Q(<<"super", "super", "b", "T">>, CRs),
        Q(<<"super", "super", "super", "b", "T">>, CRs),
        Q(<<"super", "T">>, CRs),
        Q(<<"self", "T">>, CRs),
        Q(<<"super", "self", "c", "U">>, CRs),
        Q(<<"crate", "b", "T">>, CRs),
        Q(<<"c", "T">>, ARs),
        Q(<<"crate", "a", "c", "T">>, ARs),
        Q(<<"crate", "b", "U">>, ARs),
        Q(<<"crate", "x", "T">>, ARs),
        Q(<<"c", "U">>, BRs)}

\* ModuleResolver::normalize_relative_path(relative_path, from_module)
NormalizeRelativePath(relative_path, from_module) ==
    /\ ret' = [op |-> "normalize_relative_path", relative_path |-> relative_path,
               from_module |-> from_module,
               result |-> normalize_relative_path(relative_path, from_module)]
    /\ UNCHANGED <<files, type_definitions, module_to_file, calls, run_vars>>

NextPaths ==
    \/ \E src \in PathSources :
          calls < MaxPathCalls /\ ParseFile(src.path, src.content)
    \/ \E q \in PathQueries : ResolveType(q.type_path, q.from_file)
    \/ \E q \in PathQueries, prefix \in BOOLEAN :
          NormalizeRelativePath(IF prefix THEN Front(q.type_path) ELSE <<>>,
                                path_to_module(q.from_file, base_path))

SpecPaths == Init /\ [][NextPaths]_vars

----------------------------------------------------------------------------
(* Vocabulary of the properties.                                           *)

\* The most recent call was resolve_type.
IsResolve == ret.op = "resolve_type"

\* The most recent call was resolve_type of the single-segment name n.
IsSimpleQuery == IsResolve /\ Len(ret.type_path) = 1 /\ ret.type_path[1] # ""

\* File f has been scanned and its scope declares n (struct, enum or alias).
Declares(f, n) == f \in DOMAIN files /\ n \in DOMAIN files[f].local_types

\* The files the global index lists under n.
Candidates(n) == IF n \in DOMAIN type_definitions THEN type_definitions[n] ELSE <<>>

NoDuplicates(s) == \A i, j \in DOMAIN s : s[i] = s[j] => i = j

----------------------------------------------------------------------------
\* C1: a single-segment name that from_file declares locally resolves to
\* Found(from_file), whatever imports, wildcard imports or other declaring
\* files exist.
C1_LocalDeclarationWins ==
    (IsSimpleQuery /\ Declares(ret.from_file, ret.type_path[1]))
        => ret.result = Found(ret.from_file)

\* A locally declared name that the file also imports explicitly and that a
\* wildcard-imported module and another file declare as well.
C1_Witness ==
    /\ IsSimpleQuery
    /\ LET n == ret.type_path[1]
           f == ret.from_file
       IN /\ Declares(f, n)
          /\ n \in DOMAIN files[f].imports
          /\ wildcard_lookup(n, files[f]).some
          /\ \E g \in DOMAIN files : g # f /\ Declares(g, n)
          /\ Len(Candidates(n)) >= 2
          /\ ret.result = Found(f)

----------------------------------------------------------------------------
\* C9: no list of the global index names the same file twice, whatever
\* sequence of parse_file (re-parsing included) and register_expanded calls
\* was made; and a call adds a file to a name's list only when that call
\* scanned the file and found a declaration of the name in it (or is the
\* registration of a macro-expanded name): an import adds nothing.
C9_NoDuplicateRegistration ==
    [][ /\ \A n \in DOMAIN type_definitions' : NoDuplicates(type_definitions'[n])
        /\ \A n \in DOMAIN type_definitions' :
             \A f \in Range(type_definitions'[n]) \ Range(Candidates(n)) :
                \/ /\ ret'.op = "register_expanded_type_if_missing"
                   /\ f = ret'.source_path /\ n = ret'.type_name
                \/ /\ ret'.op = "parse_file"
                   /\ f = ret'.path
                   /\ n \in DOMAIN files'[f].local_types
      ]_vars

\* A file was scanned twice (the index still lists it under T, its present
\* scope only imports T), and T is listed once.
C9_Witness ==
    /\ BRs \in DOMAIN files
    /\ "T" \in DOMAIN files[BRs].imports
    /\ ~Declares(BRs, "T")
    /\ Candidates("T") = <<BRs>>
    /\ ret.op = "parse_file" /\ ret.path = ARs /\ ret.ok
    /\ "T" \in DOMAIN files[ARs].imports \/ files[ARs].wildcard_imports # <<>>

----------------------------------------------------------------------------
\* C10: when from_file has no scope, resolve_type answers from the global
\* index by the last segment alone: Found for one candidate, Ambiguous(all
\* candidates) for several, NotFound for none.
C10_NoScopeUsesLastSegment ==
    (IsResolve /\ ret.from_file \notin DOMAIN files)
        => LET segs == SelectSeq(ret.type_path, LAMBDA s : s # "")
               c == Candidates(IF segs = <<>> THEN "" ELSE segs[Len(segs)])
           IN ret.result = CASE Len(c) = 0 -> NotFound
                             [] Len(c) = 1 -> Found(c[1])
                             [] OTHER -> Ambiguous(c)

\* A qualified path resolved from an unscanned file to a file that is not
\* the module the path names, while the module the path names is scanned.
C10_Witness ==
    /\ IsResolve
    /\ ret.from_file \notin DOMAIN files
    /\ ret.type_path = <<"", "crate", "b", "U">>
    /\ BRs \in DOMAIN files
    /\ ret.result = Found(CRs)

----------------------------------------------------------------------------
(* Vocabulary for imports.                                                 *)

\* The most recent call resolved the single-segment name n from the scanned
\* file f, and f does not declare n.
NonLocalQuery(f, n) ==
    /\ IsSimpleQuery
    /\ ret.from_file = f /\ ret.type_path = <<n>>
    /\ f \in DOMAIN files
    /\ ~Declares(f, n)

Imports(f, n) == n \in DOMAIN files[f].imports

ImportPath(f, n) == files[f].imports[n].path

\* The module an import path names: its prefix, taken from the crate root when
\* it starts with crate and relative to the importing module otherwise.
NamedModule(p, from_module) ==
    IF Len(p) < 2 THEN None
    ELSE IF p[1] = "crate" THEN Some(SubSeq(p, 1, Len(p) - 1))
    ELSE canonical_walk(SubSeq(p, 1, Len(p) - 1), from_module)

\* f imports n, without renaming, by a path that names the module of a scanned
\* file that declares n.
ExplicitTarget(f, n) ==
    /\ Imports(f, n)
    /\ LET p == ImportPath(f, n)
           m == NamedModule(p, files[f].module_path)
       IN /\ p[Len(p)] = n
          /\ m.some
          /\ m.value \in DOMAIN module_to_file
          /\ Declares(module_to_file[m.value], n)

ExplicitFile(f, n) ==
    module_to_file[NamedModule(ImportPath(f, n), files[f].module_path).value]

\* The module the i-th wildcard import of f names.
WildModule(f, i) ==
    normalize_relative_path(files[f].wildcard_imports[i], files[f].module_path)

\* The i-th wildcard import of f names a scanned module that declares n.
WildSupplies(f, n, i) ==
    /\ WildModule(f, i) \in DOMAIN module_to_file
    /\ Declares(module_to_file[WildModule(f, i)], n)

SomeWildSupplies(f, n) ==
    \E i \in DOMAIN files[f].wildcard_imports : WildSupplies(f, n, i)

\* The rules for explicit and for wildcard imports that the claims share.
ExplicitBeatsWildcard(f, n) ==
    ExplicitTarget(f, n) => ret.result = Found(ExplicitFile(f, n))

WildcardBeatsGlobal(f, n) ==
    (~Imports(f, n) /\ SomeWildSupplies(f, n))
        => \E i \in DOMAIN files[f].wildcard_imports :
              /\ WildSupplies(f, n, i)
              /\ \A j \in 1..(i - 1) : ~WildSupplies(f, n, j)
              /\ ret.result = Found(module_to_file[WildModule(f, i)])

----------------------------------------------------------------------------
\* C2: for a single-segment name not declared in from_file, an explicit
\* import naming a declaring module wins over wildcard imports and the global
\* index; without an explicit import a wildcard import of a declaring module
\* wins over the global index; and the global by-name lookup, hence Ambiguous,
\* is used only when neither an explicit import nor a wildcard import supplies
\* the name.
C2_ShadowingOrder ==
    \A f \in SourceFiles, n \in {"T", "U"} :
        NonLocalQuery(f, n) =>
            /\ ExplicitBeatsWildcard(f, n)
            /\ WildcardBeatsGlobal(f, n)
            /\ ret.result.tag = "Ambiguous"
                 => ~ExplicitTarget(f, n) /\ ~SomeWildSupplies(f, n)

----------------------------------------------------------------------------
\* C3: an explicit import recorded with a relative path (super, self or a
\* child module first) whose module, taken relative to from_file's module
\* path, declares the name resolves to Found(that module's file), however
\* many other files declare the name.
C3_RelativeImport ==
    \A f \in SourceFiles, n \in {"T", "U"} :
        (/\ NonLocalQuery(f, n)
         /\ ExplicitTarget(f, n)
         /\ ImportPath(f, n)[1] # "crate")
        => ret.result = Found(ExplicitFile(f, n))

----------------------------------------------------------------------------
\* C4: for an import of local name b with a path ending in a: when the path
\* resolves to a file f without passing a renaming re-export the answer is
\* FoundWithAlias(f, a) if a differs from b and Found(f) if a equals b; when
\* it passes renaming re-exports the answer carries the name under which the
\* terminal file is registered; a plain Found is never given for a renamed
\* import.
C4_AliasWrapping ==
    \A f \in SourceFiles, b \in {"T", "U"} :
        (NonLocalQuery(f, b) /\ Imports(f, b))
        => LET p == ImportPath(f, b)
               a == p[Len(p)]
               inner == resolve_module_path(p)
               r == ret.result
           IN /\ (inner.tag = "Found" /\ a # b) => r = FoundWithAlias(inner.file, a)
              /\ (inner.tag = "Found" /\ a = b) => r = Found(inner.file)
              /\ inner.tag # "Found" => r = inner
              /\ (/\ a # b /\ p[1] = "crate"
                  /\ Front(p) \in DOMAIN module_to_file
                  /\ Declares(module_to_file[Front(p)], a))
                 => r = FoundWithAlias(module_to_file[Front(p)], a)
              /\ r.tag = "Found" => a = b
              /\ r.tag = "FoundWithAlias"
                   => /\ r.file \in Range(Candidates(r.original))
                      /\ r.original # a => inner = r

\* A renamed import that passes a second renaming re-export: the answer
\* carries the terminal file's name, not the name the import's path ends in.
C4_Witness ==
    \E f \in SourceFiles, b \in {"T", "U"} :
        /\ NonLocalQuery(f, b) /\ Imports(f, b)
        /\ Last(ImportPath(f, b)) # b
        /\ ret.result.tag = "FoundWithAlias"
        /\ ret.result.original # Last(ImportPath(f, b))
        /\ Declares(ret.result.file, ret.result.original)

----------------------------------------------------------------------------
(* Vocabulary for wildcard chains.                                         *)

\* File f has a wildcard import that names the module of the scanned file g.
WildEdge(f, g) ==
    /\ f \in DOMAIN files /\ g \in DOMAIN files
    /\ \E i \in DOMAIN files[f].wildcard_imports :
          /\ WildModule(f, i) \in DOMAIN module_to_file
          /\ module_to_file[WildModule(f, i)] = g

\* g is k wildcard hops away from f.
RECURSIVE WildReach(_, _, _)
WildReach(f, g, k) ==
    IF k = 0 THEN f = g
    ELSE \E h \in DOMAIN files : WildEdge(f, h) /\ WildReach(h, g, k - 1)

\* The most recent call resolved name n through the scanned module whose file
\* is f: either the single-segment name n from f, or the qualified path made
\* of f's module path and n from any file.
ResolvedThrough(f, n) ==
    /\ IsResolve
    /\ f \in DOMAIN files
    /\ LET segs == SelectSeq(ret.type_path, LAMBDA x : x # "")
       IN \/ segs = <<n>> /\ ret.from_file = f
          \/ /\ segs = Append(files[f].module_path, n)
             /\ module_to_file[files[f].module_path] = f

----------------------------------------------------------------------------
\* C5: for every chain depth K from 1 to MaxChain, if the module of file m0
\* wildcard-imports a module that wildcard-re-exports a module and so on for K
\* hops, and only the file at the end of the chain declares the name, then
\* the name resolved from m0, and the qualified path m0::name resolved from
\* any file, is Found(the file at the end of the chain).
C5_ChainOnlyDeclarer ==
    IsResolve =>
        \A K \in 1..MaxChain, m0 \in SourceFiles, mK \in SourceFiles,
           n \in {"T", "U"} :
            (/\ ResolvedThrough(m0, n)
             /\ WildReach(m0, mK, K)
             /\ Declares(mK, n)
             /\ Candidates(n) = <<mK>>
             /\ ~Imports(m0, n))
            => ret.result = Found(mK)

\* A chain of exactly MaxChain hops, queried by qualified path from a file
\* that was never scanned.
C5_Witness ==
    \E m0 \in SourceFiles, mK \in SourceFiles, n \in {"T", "U"} :
        /\ ResolvedThrough(m0, n)
        /\ Len(ret.type_path) > 1
        /\ ret.from_file \notin DOMAIN files
        /\ WildReach(m0, mK, MaxChain)
        /\ \A k \in 0..(MaxChain - 1) : ~WildReach(m0, mK, k)
        /\ Candidates(n) = <<mK>> /\ Declares(mK, n)
        /\ ret.result = Found(mK)

----------------------------------------------------------------------------
\* C6: if m0 wildcard-imports m1, m1 wildcard-re-exports m2, m2 declares the
\* name and a file outside the chain declares it too, then resolving the name
\* through m0 from a scanned file gives Found(m2), neither Ambiguous nor the
\* unrelated file.
C6_TransitiveWildcard ==
    IsResolve =>
        \A m0 \in SourceFiles, m1 \in SourceFiles, m2 \in SourceFiles,
           n \in {"T", "U"} :
            (/\ ResolvedThrough(m0, n)
             /\ ret.from_file \in DOMAIN files
             /\ WildEdge(m0, m1) /\ WildEdge(m1, m2)
             /\ Cardinality({m0, m1, m2}) = 3
             /\ Declares(m2, n)
             /\ ~Declares(m0, n) /\ ~Declares(m1, n)
             /\ ~Imports(m0, n) /\ ~Imports(m1, n)
             /\ \E u \in DOMAIN files \ {m0, m1, m2} : Declares(u, n)
             /\ \A g \in DOMAIN files :
                   (Declares(g, n) /\ (WildEdge(m0, g) \/ WildReach(m0, g, 2)))
                       => g = m2)
            => ret.result = Found(m2)

----------------------------------------------------------------------------
\* The positions in the list c of the scanned files whose module path has the
\* depth and the parent of f's module path.
SameDepthAndParent(c, f) ==
    {i \in DOMAIN c :
        /\ c[i] \in DOMAIN files
        /\ LET a == files[c[i]].module_path
               b == files[f].module_path
           IN /\ Len(a) = Len(b)
              /\ SubSeq(a, 1, Len(a) - 1) = SubSeq(b, 1, Len(b) - 1)}

\* The same, where the crate root counts as the sibling of nothing.
SiblingPositions(c, f) ==
    IF Len(files[f].module_path) >= 2 THEN SameDepthAndParent(c, f) ELSE {}

\* The answer of the global lookup for the candidate list c, given the
\* positions of the candidates that count as siblings of the querying file.
FallbackAnswer(c, sib) ==
    IF Len(c) = 0 THEN NotFound
    ELSE IF Len(c) = 1 THEN Found(c[1])
    ELSE IF Cardinality(sib) = 1
         THEN Found(c[CHOOSE i \in sib : TRUE])
         ELSE Ambiguous(c)

\* A single-segment name n queried from f with no local declaration, no
\* explicit import and no wildcard hit.
FallbackQuery(f, n) ==
    NonLocalQuery(f, n) /\ ~Imports(f, n) /\ ~SomeWildSupplies(f, n)

\* Every list of the global index only ever grows at its end.
AppendOnly ==
    \A n \in DOMAIN type_definitions :
        /\ n \in DOMAIN type_definitions'
        /\ Len(type_definitions[n]) <= Len(type_definitions'[n])
        /\ SubSeq(type_definitions'[n], 1, Len(type_definitions[n]))
              = type_definitions[n]

\* C7 as stated: a name with no local, explicit-import or wildcard hit is
\* answered from the global index: Found for a single candidate; with several
\* candidates Found(it) when exactly one candidate's module path has the depth
\* and the parent of from_file's module path, otherwise Ambiguous listing
\* every candidate in the order of first registration.
C7_AsStated ==
    [][ /\ \A f \in SourceFiles, n \in {"T", "U"} :
             FallbackQuery(f, n)'
                 => (ret.result
                       = FallbackAnswer(Candidates(n),
                                        SameDepthAndParent(Candidates(n), f)))'
        /\ AppendOnly
      ]_vars

\* C7 amended: as stated, except that a module at the crate root (src/lib.rs,
\* src/main.rs) has no siblings: the tie-break applies only when from_file's
\* module path has at least two segments, and a query from the crate root with
\* several candidates is always Ambiguous.
C7_GlobalFallback ==
    [][ /\ \A f \in SourceFiles, n \in {"T", "U"} :
             FallbackQuery(f, n)'
                 => (ret.result
                       = FallbackAnswer(Candidates(n),
                                        SiblingPositions(Candidates(n), f)))'
        /\ AppendOnly
      ]_vars

\* Three candidates of which exactly one is a sibling of from_file, and it is
\* not the first one listed.
C7_Witness ==
    \E f \in SourceFiles, n \in {"T", "U"} :
        /\ FallbackQuery(f, n)
        /\ Len(Candidates(n)) >= 3
        /\ SiblingPositions(Candidates(n), f) \in {{2}, {3}}
        /\ ret.result.tag = "Found"

\* A query from the crate root with a candidate that is at the crate root too.
C7_RootWitness ==
    \E f \in SourceFiles, n \in {"T", "U"} :
        /\ FallbackQuery(f, n)
        /\ Len(files[f].module_path) = 1
        /\ Cardinality(SameDepthAndParent(Candidates(n), f)) = 1
        /\ ret.result = Ambiguous(Candidates(n))

----------------------------------------------------------------------------
\* C8: whatever the order of the parse_file and register_expanded calls, a
\* name that a scanned file declares has no synthetic file among its entries
\* in the global index, and a name listed with the synthetic file alone
\* resolves to Found(the synthetic file).
C8_RealBeatsSynthetic ==
    /\ \A n \in {"T", "U"} :
          (\E f \in DOMAIN files : Declares(f, n))
              => Expanded \notin Range(Candidates(n))
    /\ \A n \in {"T", "U"} :
          (/\ IsSimpleQuery /\ ret.type_path = <<n>>
           /\ Candidates(n) = <<Expanded>>
           /\ ret.from_file \in DOMAIN files => ~Imports(ret.from_file, n))
          => ret.result = Found(Expanded)

----------------------------------------------------------------------------
(* Vocabulary for aliases.                                                 *)

\* The most recent call was resolve_alias_target.
IsAliasQuery == ret.op = "resolve_alias_target"

\* The resolution of from_file's import of n, made to look for an imported
\* alias, does not return.
ImportStuck(n, f) ==
    /\ f \in DOMAIN files
    /\ n \notin DOMAIN files[f].type_aliases
    /\ n \in DOMAIN files[f].imports
    /\ resolve_module_path(files[f].imports[n].path).tag \in {"Diverged", "Panicked"}

\* The base names n stands for, seen from f: its alias in f; else the alias
\* the import of n in f leads to; else its alias in any other scanned file.
AliasBases(n, f) ==
    LET others == {files[g].type_aliases[n] :
                      g \in {g \in DOMAIN files \ {f} :
                                n \in DOMAIN files[g].type_aliases}}
    IN IF f \notin DOMAIN files THEN others
       ELSE IF n \in DOMAIN files[f].type_aliases THEN {files[f].type_aliases[n]}
       ELSE IF n \notin DOMAIN files[f].imports THEN others
       ELSE LET p == files[f].imports[n].path
                r == resolve_module_path(p)
            IN IF /\ r.tag = "Found"
                  /\ r.file \in DOMAIN files
                  /\ p[Len(p)] \in DOMAIN files[r.file].type_aliases
               THEN {files[r.file].type_aliases[p[Len(p)]]}
               ELSE others

\* The names an alias chain from n can pass through in at most k hops.
RECURSIVE ChainNames(_, _, _)
ChainNames(n, f, k) ==
    IF k = 0 \/ ImportStuck(n, f) THEN {n}
    ELSE {n} \cup UNION {ChainNames(m, f, k - 1) : m \in AliasBases(n, f)}

\* Every alias chain from n ends, in a name that is no alias, within k hops.
RECURSIVE EndsWithin(_, _, _)
EndsWithin(n, f, k) ==
    \/ AliasBases(n, f) = {}
    \/ k > 0 /\ \A m \in AliasBases(n, f) : EndsWithin(m, f, k - 1)

\* The names in which the alias chains from n end within k hops.
RECURSIVE ChainEnds(_, _, _)
ChainEnds(n, f, k) ==
    IF AliasBases(n, f) = {} THEN {n}
    ELSE IF k = 0 THEN {}
    ELSE UNION {ChainEnds(m, f, k - 1) : m \in AliasBases(n, f)}

----------------------------------------------------------------------------
\* What C11 prescribes for the query (n, f) and the result r.
AliasChainAnswer(n, f, r) ==
    /\ AliasBases(n, f) = {} => r = None
    /\ (AliasBases(n, f) # {} /\ EndsWithin(n, f, MaxAliasHops))
          => /\ "tag" \notin DOMAIN r
             /\ r.some
             /\ r.value \in ChainEnds(n, f, MaxAliasHops)
             /\ AliasBases(r.value, f) = {}

\* C11: resolve_alias_target returns None for a name that is no alias in
\* from_file's scope, through an import of from_file, or in any other scanned
\* file; for an alias whose chain ends within MaxAliasHops hops it returns
\* the name at the end of the chain, which is itself no alias.
C11_AliasChains ==
    IsAliasQuery => AliasChainAnswer(ret.type_name, ret.from_file, ret.result)

\* C11, for the queries in which the resolution of every import looked at on
\* the way returns: the same answer.
C11_ChainsWhenImportsReturn ==
    (/\ IsAliasQuery
     /\ \A m \in ChainNames(ret.type_name, ret.from_file, MaxAliasHops) :
           ~ImportStuck(m, ret.from_file))
    => AliasChainAnswer(ret.type_name, ret.from_file, ret.result)

\* The two-hop chain Alias2 -> Alias1 -> Base, entered through the renamed
\* import `Mine` of another file.
C11_Witness ==
    /\ IsAliasQuery
    /\ ret.type_name = "Mine" /\ ret.from_file = LibRs
    /\ AliasBases("Mine", LibRs) = {"Alias1"}
    /\ AliasBases("Alias1", LibRs) = {"Base"}
    /\ ret.result = Some("Base")

----------------------------------------------------------------------------
\* C12: resolve_alias_target always returns, after at most MaxAliasHops
\* hops, also on cyclic alias tables; on a chain that does not end within
\* MaxAliasHops hops it returns Some(the name reached after the last hop).
C12_AliasTerminates ==
    IsAliasQuery =>
        /\ "tag" \notin DOMAIN ret.result
        /\ ~EndsWithin(ret.type_name, ret.from_file, MaxAliasHops)
              => /\ ret.result.some
                 /\ ret.result.value
                       \in ChainNames(ret.type_name, ret.from_file, MaxAliasHops)
                 /\ AliasBases(ret.result.value, ret.from_file) # {}

----------------------------------------------------------------------------
\* C19: resolve_alias_target is a function of the tables and its arguments:
\* the order in which the file table is iterated does not change the result,
\* also when from_file does not define the alias and several other scanned
\* files define it with different base names.
C19_OrderIndependent ==
    IsAliasQuery =>
        \A o1 \in IterationOrders(DOMAIN files), o2 \in IterationOrders(DOMAIN files) :
            resolve_alias_target(ret.type_name, ret.from_file, o1)
                = resolve_alias_target(ret.type_name, ret.from_file, o2)


----------------------------------------------------------------------------
(* Vocabulary for the collector.                                           *)

\* The project whose files have all been scanned.
Running(project) ==
    /\ pc # "scan"
    /\ Range(parse_result.commands) =
          UNION {Range(commands_of(f.content.items, f.path, FALSE)) : f \in project}
    /\ calls = Cardinality(project)

RECURSIVE CustomNames(_)
\* The custom type names a RustType mentions in a position that is followed.
CustomNames(ty) ==
    CASE ty.t = "Custom" -> {ty.name}
      [] ty.t \in {"Vec", "Option", "Result"} -> CustomNames(ty.inner)
      [] ty.t = "HashMap" -> CustomNames(ty.key) \cup CustomNames(ty.value)
      [] ty.t = "Tuple" -> UNION {CustomNames(ty.types[i]) : i \in DOMAIN ty.types}
      [] OTHER -> {}

\* A use is a pair <<name, file>>: a reference to `name` written in `file`.
CommandUses(cmd) ==
    {<<n, cmd.source_file>> :
        n \in UNION ({CustomNames(a.ty) : a \in Range(cmd.args)}
                     \cup {IF cmd.return_type.some
                           THEN CustomNames(cmd.return_type.value) ELSE {}})}

\* The types a declaration's fields or variant payloads are written with.
PayloadTypes(d) ==
    IF "fields" \in DOMAIN d THEN {f.ty : f \in Range(d.fields)}
    ELSE UNION {CASE v.data.style = "Tuple" -> Range(v.data.types)
                  [] v.data.style = "Struct" -> {f.ty : f \in Range(v.data.fields)}
                  [] OTHER -> {} : v \in Range(d.variants)}

Declarations == Range(parse_result.structs) \cup Range(parse_result.enums)

DeclUses(key) ==
    {<<n, key[2]>> :
        n \in UNION {CustomNames(ty) :
                       ty \in UNION {PayloadTypes(d) :
                           d \in {x \in Declarations :
                                     <<x.name, x.source_file>> = key}}}}

\* The uses the collector has gone through so far.
SeenUses ==
    UNION {CommandUses(parse_result.commands[i]) : i \in 1..(next_cmd - 1)}
    \cup UNION {DeclUses(key) : key \in processed}

\* The file a use resolves to, if it resolves.
SourceOf(use) == resolution_source(resolve_type(<<use[1]>>, use[2]))

IsPrefix(s, t) == Len(s) <= Len(t) /\ SubSeq(t, 1, Len(s)) = s

\* C13: the merge rule at every step of seeding and closure. An entry of
\* resolved is never overwritten and a conflicts list only grows at its end;
\* a conflicts list has at least two pairwise distinct files and starts with
\* resolved[name]; every use gone through that resolved is recorded, as
\* resolved[name] or in conflicts[name]; and every recorded file is the
\* resolution of some use, so a name whose uses all resolve to one file has
\* no conflicts entry. Scenario A ends with resolved = {User: a.rs} and no
\* conflicts; scenario D, seeded from b.rs first, with conflicts[Config] =
\* [a.rs, a/c.rs].
C13_MergeRule ==
    /\ [](/\ \A n \in DOMAIN conflicts :
               /\ n \in DOMAIN resolved_types
               /\ Len(conflicts[n]) >= 2
               /\ NoDuplicates(conflicts[n])
               /\ conflicts[n][1] = resolved_types[n]
               /\ \A i \in DOMAIN conflicts[n] :
                     \E u \in SeenUses :
                        u[1] = n /\ SourceOf(u) = Some(conflicts[n][i])
          /\ \A n \in DOMAIN resolved_types :
               \E u \in SeenUses : u[1] = n /\ SourceOf(u) = Some(resolved_types[n])
          /\ \A u \in SeenUses :
               SourceOf(u).some =>
                  /\ u[1] \in DOMAIN resolved_types
                  /\ \/ resolved_types[u[1]] = SourceOf(u).value
                     \/ /\ u[1] \in DOMAIN conflicts
                        /\ Contains(conflicts[u[1]], SourceOf(u).value)
          /\ (pc = "collected" /\ Running(ProjectA)) =>
                /\ resolved_types = [n \in {"User"} |-> ARs]
                /\ conflicts = EmptyMap
          /\ (pc = "collected" /\ Running(ProjectD)
                /\ parse_result.commands[1].source_file = BRs) =>
                conflicts = [n \in {"Config"} |-> <<ARs, CRs>>])
    /\ [][/\ \A n \in DOMAIN resolved_types :
               n \in DOMAIN resolved_types' /\ resolved_types'[n] = resolved_types[n]
          /\ \A n \in DOMAIN conflicts :
               n \in DOMAIN conflicts' /\ IsPrefix(conflicts[n], conflicts'[n])]_vars

\* Three definitions of Config were reached, one of them by two uses: the
\* list holds each file once, in the order the uses were gone through.
C13_Witness ==
    /\ pc = "collected"
    /\ Running(ProjectH)
    /\ conflicts = [n \in {"Config"} |-> <<ARs, CRs, MainRs>>]
    /\ resolved_types = [n \in {"Config"} |-> ARs]

\* The resolution of a use gave a file (Found or FoundWithAlias).
Succeeded(use) == resolve_type(<<use[1]>>, use[2]).tag \in {"Found", "FoundWithAlias"}

\* The names whose entry in resolved or conflicts a step created or changed.
ChangedNames ==
    {n \in DOMAIN resolved_types' :
        n \notin DOMAIN resolved_types \/ resolved_types'[n] # resolved_types[n]}
    \cup {n \in DOMAIN conflicts' :
             n \notin DOMAIN conflicts \/ conflicts'[n] # conflicts[n]}

\* C14: a use whose resolution is NotFound or Ambiguous changes neither
\* resolved nor conflicts, in seeding and in closure: a step creates or
\* changes an entry only for a name one of its uses resolved successfully;
\* a name none of whose uses resolved has no entry in either map; a
\* conflicts entry has two uses of the name that resolved successfully to
\* different files. With a.rs and b.rs both declaring User and a/c.rs
\* returning bare User, the result has no User entry and no conflict.
C14_FailuresChangeNothing ==
    /\ [](/\ \A n \in DOMAIN conflicts :
               \E u1, u2 \in SeenUses :
                  /\ u1[1] = n /\ u2[1] = n
                  /\ Succeeded(u1) /\ Succeeded(u2)
                  /\ resolve_type(<<n>>, u1[2]).file # resolve_type(<<n>>, u2[2]).file
          /\ \A n \in (DOMAIN resolved_types) \cup (DOMAIN conflicts) :
               \E u \in SeenUses : u[1] = n /\ Succeeded(u)
          /\ (pc = "collected" /\ Running(ProjectB)) =>
                /\ "User" \notin DOMAIN resolved_types
                /\ conflicts = EmptyMap)
    /\ [][\A n \in ChangedNames :
             \E u \in SeenUses' \ SeenUses : u[1] = n /\ Succeeded(u)]_vars

\* Scenario B collected: a/c.rs's Holder was expanded, its field types User
\* (Ambiguous) and Query (NotFound) left no entry, as in seeding.
C14_Witness ==
    /\ pc = "collected"
    /\ Running(ProjectB)
    /\ <<"Holder", CRs>> \in processed
    /\ resolve_type(<<"User">>, CRs) = Ambiguous(<<ARs, BRs>>)
    /\ resolve_type(<<"Query">>, CRs) = NotFound
    /\ resolved_types = [n \in {"Holder"} |-> CRs]
    /\ conflicts = EmptyMap

\* The declarations under a key <<name, file>>, file being the owning file.
DeclaredAs(key) == {d \in Declarations : <<d.name, d.source_file>> = key}

\* The custom type names the payload of a declaration mentions.
PayloadNames(d) == UNION {CustomNames(ty) : ty \in PayloadTypes(d)}

\* C15: closure resolves the types of a declaration's fields and variant
\* payloads in the declaration's owning file. For every expanded pair
\* (name, file) and every type name its declaration mentions, through any
\* nesting, that resolves from the owning file: the file it resolves to is
\* recorded (as resolved or in conflicts); and a step that expands a pair
\* adds to resolved only names its declaration mentions, each with the file
\* it resolves to from the owning file. a.rs declaring Item{tag: Tag, ..}
\* and Tag, lib.rs importing only Item and returning it: resolved[Tag] is
\* a.rs.
C15_OwningFileContext ==
    /\ [](/\ \A key \in processed : \A d \in DeclaredAs(key) :
               \A t \in PayloadNames(d) :
                  Succeeded(<<t, d.source_file>>) =>
                     /\ t \in DOMAIN resolved_types
                     /\ \/ resolved_types[t] = resolve_type(<<t>>, d.source_file).file
                        \/ /\ t \in DOMAIN conflicts
                           /\ Contains(conflicts[t],
                                       resolve_type(<<t>>, d.source_file).file)
          /\ (pc = "collected" /\ Running(ProjectC)) =>
                /\ "Tag" \in DOMAIN resolved_types
                /\ resolved_types["Tag"] = ARs)
    /\ [][(pc = "closure" /\ to_process # <<>>) =>
             \A t \in (DOMAIN resolved_types') \ (DOMAIN resolved_types) :
                \E d \in DeclaredAs(Last(to_process)) :
                   /\ t \in PayloadNames(d)
                   /\ Succeeded(<<t, d.source_file>>)
                   /\ resolved_types'[t] = resolve_type(<<t>>, d.source_file).file]_vars

\* Scenario C collected: everything Item reaches is resolved to a.rs, while
\* from lib.rs, the file of the command, Tag is ambiguous.
C15_Witness ==
    /\ pc = "collected"
    /\ Running(ProjectC)
    /\ resolved_types = [n \in {"Item", "Tag", "Extra", "Kind", "Deep"} |-> ARs]
    /\ resolve_type(<<"Tag">>, LibRs) = Ambiguous(<<ARs, CRs>>)
        \/ resolve_type(<<"Tag">>, LibRs) = Ambiguous(<<CRs, ARs>>)
    /\ processed = {<<n, ARs>> : n \in {"Item", "Tag", "Extra", "Kind", "Deep"}}

\* C16: every successful resolution made during closure is on the worklist
\* or expanded, also one that resolves an already-resolved name to a second
\* file: for every expanded pair and every type name its declaration
\* mentions that resolves from the owning file to a file g, the pair
\* (that name, g) is waiting on the worklist or has been expanded, so that
\* at the end both definitions of a name with two definitions are expanded.
C16_EveryResolutionExpanded ==
    \A key \in processed : \A d \in DeclaredAs(key) :
       \A t \in PayloadNames(d) :
          Succeeded(<<t, d.source_file>>) =>
             LET pair == <<t, resolve_type(<<t>>, d.source_file).file>>
             IN pair \in processed \/ Contains(to_process, pair)

\* A turn of the worklist loop either expands a pair not expanded before or
\* only drops a pair from the worklist.
WorklistProgress ==
    (pc = "closure" /\ to_process # <<>> /\ pc' = "closure") =>
       \/ /\ Last(to_process) \notin processed
          /\ processed' = processed \cup {Last(to_process)}
       \/ /\ processed' = processed
          /\ Len(to_process') < Len(to_process)

\* C17: collect_used_types terminates on every finite input: no call it
\* makes fails to return, no pair is expanded more than once (each turn of
\* the loop expands a new pair or shortens the worklist, and the pairs are
\* finitely many), so the worklist empties.
C17_CollectorTerminates ==
    /\ [](pc # "diverged")
    /\ [][WorklistProgress]_vars

\* C18: a second run of the collector on the same commands, declarations
\* and resolver tables returns the resolved and the conflicts the first run
\* returned, whatever order the worklist was filled in.
C18_CollectorIdempotent ==
    (pc = "collected" /\ previous.some) =>
       /\ resolved_types = previous.value.resolved
       /\ conflicts = previous.value.conflicts

\* C20: in a run whose collection returns non-empty conflicts nothing is
\* ever written, no file and no directory, and the run ends in the error;
\* output is written only in runs where conflicts is empty. In every state:
\* something written, or a write step reached, means conflicts is empty; the
\* step after a collection with conflicts goes to the error and writes
\* nothing, and the error is final; and such a collection leads to the error.
C20_ConflictsAbortBeforeWrite ==
    /\ [](/\ written # <<>> => conflicts = EmptyMap
          /\ pc \in {"write_types", "write_commands", "done"} => conflicts = EmptyMap)
    /\ [][/\ (pc = "collected" /\ conflicts # EmptyMap) =>
                (pc' = "error" /\ written' = written)
          /\ pc = "error" => (pc' = "error" /\ written' = written)]_vars
    /\ ((pc = "collected" /\ conflicts # EmptyMap) ~> (pc = "error" /\ written = <<>>))

\* Scenario D ended in the error with its conflict and nothing written.
C20_Witness ==
    /\ pc = "error"
    /\ Running(ProjectD)
    /\ "Config" \in DOMAIN conflicts
    /\ written = <<>>


(***************************************************************************)
(* The declarations handed to the emitter                                  *)
(***************************************************************************)
\* The contents of the types file written so far.
EmittedTypes ==
    {written[i].content :
        i \in {j \in DOMAIN written :
                  written[j].call = "write" /\ written[j].of = "types_file"}}

\* The declarations of one kind whose file is the one their name resolved to.
ResolvedDecls(decls) ==
    {d \in Range(decls) : /\ d.name \in DOMAIN resolved_types
                          /\ resolved_types[d.name] = d.source_file}

NoNameTwice(seq) ==
    \A i, j \in DOMAIN seq : i # j => seq[i].name # seq[j].name

\* C21: on a conflict-free run the emitted structs and enums are exactly the
\* declarations d with resolved[d.name] = d.source_file, and no name is
\* emitted twice.
C21_EmitsResolvedDeclarations ==
    \A c \in EmittedTypes :
        /\ Range(c.structs) = ResolvedDecls(parse_result.structs)
        /\ Range(c.enums) = ResolvedDecls(parse_result.enums)
        /\ NoNameTwice(c.structs \o c.enums)


(***************************************************************************)
(* Qualified paths                                                         *)
(***************************************************************************)
\* The last call was resolve_type(type_path, from_file).
Asked(type_path, from_file) ==
    IsResolve /\ ret.type_path = type_path /\ ret.from_file = from_file

\* The file registered for a module path declares the name itself.
DeclaredIn(module_path, name) ==
    /\ module_path \in DOMAIN module_to_file
    /\ name \in DOMAIN files[module_to_file[module_path]].local_types

\* What the canonicalization rule gives for the paths asked, written out
\* by hand: the module path of from_file, the path, the canonical path.
C22_Canonical ==
    LET E(f, tp, canon) == [from_file |-> f, type_path |-> tp, canon |-> canon]
    IN {E(DeepRs, <<"super", "super", "super", "super", "types", "Top">>,
          Some(<<"crate", "types", "Top">>)),
        E(DeepRs, <<"super", "super", "super", "super", "super", "types", "Top">>, None),
        E(DeepRs, <<"crate", "x", "Top">>, Some(<<"crate", "x", "Top">>)),
        E(CRs, <<"super", "super", "b", "T">>, Some(<<"crate", "b", "T">>)),
        E(CRs, <<"super", "super", "super", "b", "T">>, None),
        E(CRs, <<"super", "T">>, Some(<<"crate", "a", "T">>)),
        E(CRs, <<"self", "T">>, Some(<<"crate", "a", "c", "T">>)),
        E(CRs, <<"super", "self", "c", "U">>, Some(<<"crate", "a", "c", "U">>)),
        E(CRs, <<"crate", "b", "T">>, Some(<<"crate", "b", "T">>)),
        E(ARs, <<"c", "T">>, Some(<<"crate", "a", "c", "T">>)),
        E(ARs, <<"crate", "a", "c", "T">>, Some(<<"crate", "a", "c", "T">>)),
        E(ARs, <<"crate", "b", "U">>, Some(<<"crate", "b", "U">>)),
        E(ARs, <<"crate", "x", "T">>, Some(<<"crate", "x", "T">>)),
        E(BRs, <<"c", "U">>, Some(<<"crate", "b", "c", "U">>))}

\* C22: a multi-segment path whose first segment is not an imported name is
\* resolved as its canonical path (crate starts at the root, anything else at
\* from_file's module; super removes, self keeps, a name appends): it gets
\* the answer of the canonical path written out, the declaring file of the
\* canonical module when that module declares the name, and NotFound when a
\* super is applied to the root.
C22_Canonicalization ==
    \A e \in C22_Canonical :
        (/\ Asked(e.type_path, e.from_file)
         /\ e.from_file \in DOMAIN files
         /\ e.type_path[1] \notin DOMAIN files[e.from_file].imports)
        => IF e.canon = None THEN ret.result = NotFound
           ELSE LET canon == e.canon.value
                IN /\ ret.result = resolve_type(canon, e.from_file)
                   /\ DeclaredIn(Front(canon), Last(canon))
                         => ret.result = Found(module_to_file[Front(canon)])

\* From crate::a::b::c::deep four supers reach the root and types::Top is
\* found in src/types.rs.
C22_Witness ==
    /\ Asked(<<"super", "super", "super", "super", "types", "Top">>, DeepRs)
    /\ ret.result = Found(TypesRs)


\* C23: a multi-segment path whose first segment is an import name of
\* from_file with recorded path P gets the answer of P followed by the rest
\* of the path, resolved as an absolute module path: the declaring file of
\* that module when it declares the name, and in any case what the absolute
\* path asked directly gets; a child module of from_file named like the
\* import is not looked at.
C23_ImportedFirstSegment ==
    \A q \in PathQueries :
        (/\ Asked(q.type_path, q.from_file)
         /\ q.from_file \in DOMAIN files
         /\ q.type_path[1] \in DOMAIN files[q.from_file].imports)
        => LET recorded == files[q.from_file].imports[q.type_path[1]].path
               full == recorded \o Tail(q.type_path)
           IN /\ recorded[1] = "crate" => ret.result = resolve_type(full, q.from_file)
              /\ DeclaredIn(Front(full), Last(full))
                    => ret.result = Found(module_to_file[Front(full)])

\* src/a.rs has `use crate::a as c;` and a child module c that declares T:
\* c::T is the T of src/a.rs.
C23_Witness ==
    /\ Asked(<<"c", "T">>, ARs)
    /\ ARs \in DOMAIN files
    /\ "c" \in DOMAIN files[ARs].imports
    /\ DeclaredIn(<<"crate", "a", "c">>, "T")
    /\ ret.result = Found(ARs)


(***************************************************************************)
(* Scanning before resolving                                               *)
(***************************************************************************)
\* C24: in a run of the pipeline resolving starts only when every file has
\* been handed to parse_file, and from then on (collector, resolve_type, the
\* writes) the scope table, the global index and the module-to-file table
\* stay as the scan left them; while files are left nothing is collected.
C24_ScanThenReadOnly ==
    [][/\ pc' # "scan" => rust_files = <<>> /\ rust_files' = <<>>
       /\ pc # "scan" =>
             UNCHANGED <<files, type_definitions, module_to_file, calls>>
       /\ rust_files # <<>> =>
             UNCHANGED <<resolved_types, conflicts, to_process, processed>>]_vars

\* The collector has resolved names against the tables of a finished scan.
C24_Witness ==
    /\ Running(ProjectC)
    /\ pc = "collected"
    /\ DOMAIN resolved_types # {}
    /\ DOMAIN files # {}
    /\ rust_files = <<>>


(***************************************************************************)
(* Termination of resolve_type                                             *)
(***************************************************************************)
\* C25: every call of resolve_type returns, with Found, FoundWithAlias,
\* Ambiguous or NotFound, whatever the tables hold.
C25_ResolveTypeReturns ==
    IsResolve => ret.result.tag \in {"Found", "FoundWithAlias", "Ambiguous", "NotFound"}


(***************************************************************************)
(* Files that do not parse                                                 *)
(***************************************************************************)
\* C26: a parse_file call that fails leaves the scope table, the global
\* index and the module-to-file table as they were and the scan goes on to
\* the next file; after the scan a scope exists exactly for the files whose
\* parse succeeded.
C26_FailedParseChangesNothing ==
    /\ [][(pc = "scan" /\ rust_files # <<>> /\ ~Head(rust_files).content.ok)
           => /\ ret' = [op |-> "parse_file", path |-> Head(rust_files).path,
                         ok |-> FALSE]
              /\ UNCHANGED <<files, type_definitions, module_to_file>>
              /\ pc' = "scan"
              /\ rust_files' = Tail(rust_files)]_vars
    /\ [](\A project \in Projects :
            Running(project) =>
               DOMAIN files = {f.path : f \in {g \in project : g.content.ok}})

\* The run went on past the malformed src/main.rs, which has no scope, and
\* was completed with the two other files.
C26_Witness ==
    /\ Running(ProjectF)
    /\ pc = "done"
    /\ DOMAIN files = {ARs, LibRs}
    /\ DOMAIN resolved_types # {}


(***************************************************************************)
(* Soundness of a successful resolution                                    *)
(***************************************************************************)
\* The global index lists the file under the name.
Listed(name, file) ==
    name \in DOMAIN type_definitions /\ file \in Range(type_definitions[name])

ByIndex(name) ==
    LET c == Candidates(name)
    IN CASE Len(c) = 0 -> NotFound
         [] Len(c) = 1 -> Found(c[1])
         [] OTHER -> Ambiguous(c)

\* The module is registered and its file declares the name, imports it
\* explicitly, or wildcard-imports a module that declares it.
ModuleSupplies(module_path, name) ==
    /\ module_path \in DOMAIN module_to_file
    /\ LET g == module_to_file[module_path]
       IN Declares(g, name) \/ Imports(g, name) \/ SomeWildSupplies(g, name)

\* C28: a multi-segment path whose module prefix is registered for no file,
\* or whose module supplies the final name neither by declaration nor by an
\* explicit or wildcard import, is answered from the global index by the
\* final segment alone: Found for one candidate, Ambiguous(all candidates)
\* for several, NotFound for none.
C28_QualifiedFallback ==
    \A e \in {x \in C22_Canonical : x.canon # None} :
        (/\ Asked(e.type_path, e.from_file)
         /\ e.from_file \in DOMAIN files
         /\ e.type_path[1] \notin DOMAIN files[e.from_file].imports
         /\ ~ModuleSupplies(Front(e.canon.value), Last(e.canon.value)))
        => ret.result = ByIndex(Last(e.canon.value))

\* crate::b::U is asked while src/b.rs is scanned and has nothing named U:
\* the answer is the one file that declares U, src/a/c.rs.
C28_Witness ==
    /\ Asked(<<"crate", "b", "U">>, ARs)
    /\ ARs \in DOMAIN files
    /\ <<"crate", "b">> \in DOMAIN module_to_file
    /\ ~ModuleSupplies(<<"crate", "b">>, "U")
    /\ ret.result = Found(CRs)


(***************************************************************************)
(* Files that share a module path                                          *)
(***************************************************************************)
\* C29: a type declared in a scanned file resolves by its root-anchored
\* path to that file, also when another scanned file has the same module
\* path (src/lib.rs and src/main.rs are both the root, and the table keeps
\* one of them), whichever of the two was parsed last. Here: src/main.rs
\* declares T, src/lib.rs is scanned and does not.
C29_SharedModulePath ==
    (/\ Asked(<<"crate", "T">>, ret.from_file)
     /\ ret.from_file \in DOMAIN files
     /\ Declares(MainRs, "T")
     /\ LibRs \in DOMAIN files
     /\ ~Declares(LibRs, "T"))
    => ret.result = Found(MainRs)

(***************************************************************************)
(* Normalization of wildcard-import paths                                  *)
(***************************************************************************)
RECURSIVE Normalized(_, _)
\* The rule read from the last segment backwards: what the path without its
\* last segment gives, with the last segment applied to it.
Normalized(relative_path, from_module) ==
    IF relative_path = <<>> THEN from_module
    ELSE LET before == Normalized(Front(relative_path), from_module)
             segment == Last(relative_path)
         IN CASE segment = "super" -> IF Len(before) > 1 THEN Front(before) ELSE before
              [] segment = "self" -> before
              [] OTHER -> Append(before, segment)

\* C30: normalize_relative_path gives the module path itself for an empty
\* path and the path itself when it starts with crate; otherwise each super
\* removes the last segment (and does nothing at the root), self does
\* nothing and any other segment is appended; the result starts with crate.
C30_NormalizeRelativePath ==
    ret.op = "normalize_relative_path" =>
       LET rel == ret.relative_path
           M == ret.from_module
       IN /\ rel = <<>> => ret.result = M
          /\ (rel # <<>> /\ rel[1] = "crate") => ret.result = rel
          /\ (rel # <<>> /\ rel[1] # "crate") => ret.result = Normalized(rel, M)
          /\ (rel = <<"super", "self", "c">> /\ M = <<"crate", "a", "c">>)
                => ret.result = <<"crate", "a", "c">>
          /\ (rel = <<"super", "super", "super", "b">> /\ M = <<"crate", "a", "c">>)
                => ret.result = <<"crate", "b">>
          /\ Len(ret.result) >= 1
          /\ ret.result[1] = "crate"

\* Three supers from crate::a::c: the third one is applied to the root and
\* ignored.
C30_Witness ==
    /\ ret.op = "normalize_relative_path"
    /\ ret.relative_path = <<"super", "super", "super", "b">>
    /\ ret.from_module = <<"crate", "a", "c">>
    /\ ret.result = <<"crate", "b">>

====
